---- MODULE Spec2Model ----
(***************************************************************************)
(* Filigran CLA bot: the pull-request reconciler, the /cla resend command  *)
(* handler and the agreement-event reconciler, over the SQLite record      *)
(* store, the GitHub platform state and the Concord agreement service.     *)
(*                                                                         *)
(* A handler is an async function: it runs atomically between two awaits.  *)
(* Every handler is a thread that moves through its program points, one    *)
(* for each await whose call changes GitHub, Concord or the store or       *)
(* reads what another handler may change.  A step is the answer of the     *)
(* awaited call and the code that runs up to the next await.  Spec runs    *)
(* the webhooks one after the other; SpecConc lets two webhooks overlap.   *)
(***************************************************************************)
EXTENDS Integers, Sequences, FiniteSets, TLC

\* ------------------------------------------------------------------ bounds
MaxEvents == 3
MaxSha == 2
MaxFaults == 1
MaxCommitEmails == 2
MaxRowRef == 2
MaxOverlapping == 2

\* ---------------------------------------------------------------- universe
\* Usernames are sequences of characters, so that case folding is computed.
Alice == <<"A", "l", "i", "c", "e">>
Bob == <<"b", "o", "b">>

PRA == [repo |-> "org/repoA", number |-> 7]
PRB == [repo |-> "org/repoB", number |-> 3]
PRs == {PRA, PRB}

\* pull_request.user of each pull request: both are Alice's, user id 42
PRAuthor(pr) == [id |-> 42, login |-> Alice]

Shas == 1..MaxSha

\* SQL NULL of an INTEGER column / of a TEXT column
NullId == 0
NullTs == "NULL"
Now == "now"

\* ------------------------------------------------------------ record store
\* cla_records and pr_records are sequences of rows in rowid order.
\* A lookup that finds nothing returns undefined.
NoCLA == [github_user_id |-> NullId, concord_agreement_uid |-> NullId,
          status |-> "undefined", signed_at |-> NullTs]
NoPR == [repo_full_name |-> "undefined", pr_number |-> NullId, github_user_id |-> NullId,
         comment_id |-> NullId, concord_agreement_uid |-> NullId]

\* no createPRRecord call yet
NoPRCall == [before |-> <<>>, record |-> NoPR]

FirstOr(rows, none) == IF Len(rows) = 0 THEN none ELSE rows[1]

findCLAByGitHubUserId(cla, githubUserId) ==
    FirstOr(SelectSeq(cla, LAMBDA r : r.github_user_id = githubUserId), NoCLA)

findCLAByAgreementUid(cla, agreementUid) ==
    FirstOr(SelectSeq(cla, LAMBDA r : r.concord_agreement_uid = agreementUid), NoCLA)

\* Variant: a plain INSERT, no conflict clause.
createCLARecord_AlwaysInserts(cla, record) ==
    Append(cla, [github_user_id |-> record.github_user_id,
                 concord_agreement_uid |-> record.concord_agreement_uid,
                 status |-> record.status,
                 signed_at |-> NullTs])

\* INSERT ... ON CONFLICT(github_user_id) DO UPDATE SET concord_agreement_uid, status.
\* signed_at is not among the inserted columns.
createCLARecord(cla, record) ==
    IF \E i \in 1..Len(cla) : cla[i].github_user_id = record.github_user_id
    THEN [i \in 1..Len(cla) |->
            IF cla[i].github_user_id = record.github_user_id
            THEN [cla[i] EXCEPT !.concord_agreement_uid = record.concord_agreement_uid,
                                !.status = record.status]
            ELSE cla[i]]
    ELSE Append(cla, [github_user_id |-> record.github_user_id,
                      concord_agreement_uid |-> record.concord_agreement_uid,
                      status |-> record.status,
                      signed_at |-> NullTs])

\* UPDATE cla_records SET status = ?, signed_at = ? WHERE concord_agreement_uid = ?
updateCLAStatusByAgreementUid(cla, agreementUid, status, signedAt) ==
    [i \in 1..Len(cla) |->
        IF cla[i].concord_agreement_uid = agreementUid
        THEN [cla[i] EXCEPT !.status = status, !.signed_at = signedAt]
        ELSE cla[i]]

\* DELETE FROM cla_records WHERE github_user_id = ?
deleteCLAByGitHubUserId(cla, githubUserId) ==
    SelectSeq(cla, LAMBDA r : r.github_user_id # githubUserId)

SameTriple(r, repoFullName, prNumber, githubUserId) ==
    /\ r.repo_full_name = repoFullName
    /\ r.pr_number = prNumber
    /\ r.github_user_id = githubUserId

findPRRecord(prs, repoFullName, prNumber, githubUserId) ==
    FirstOr(SelectSeq(prs, LAMBDA r : SameTriple(r, repoFullName, prNumber, githubUserId)), NoPR)

findPRRecordsByGitHubUserId(prs, githubUserId) ==
    SelectSeq(prs, LAMBDA r : r.github_user_id = githubUserId)

\* COALESCE(excluded.x, pr_records.x)
Coalesce(new, old) == IF new # NullId THEN new ELSE old

\* Variant: on conflict the two fields are overwritten with what is given, null or not.
createPRRecord_Overwrites(prs, record) ==
    IF \E i \in 1..Len(prs) :
          SameTriple(prs[i], record.repo_full_name, record.pr_number, record.github_user_id)
    THEN [i \in 1..Len(prs) |->
            IF SameTriple(prs[i], record.repo_full_name, record.pr_number, record.github_user_id)
            THEN [prs[i] EXCEPT !.comment_id = record.comment_id,
                                !.concord_agreement_uid = record.concord_agreement_uid]
            ELSE prs[i]]
    ELSE Append(prs, record)

\* INSERT ... ON CONFLICT(repo_full_name, pr_number, github_user_id) DO UPDATE SET
\* comment_id and concord_agreement_uid by COALESCE.
createPRRecord(prs, record) ==
    IF \E i \in 1..Len(prs) :
          SameTriple(prs[i], record.repo_full_name, record.pr_number, record.github_user_id)
    THEN [i \in 1..Len(prs) |->
            IF SameTriple(prs[i], record.repo_full_name, record.pr_number, record.github_user_id)
            THEN [prs[i] EXCEPT
                    !.comment_id = Coalesce(record.comment_id, prs[i].comment_id),
                    !.concord_agreement_uid =
                        Coalesce(record.concord_agreement_uid, prs[i].concord_agreement_uid)]
            ELSE prs[i]]
    ELSE Append(prs, record)

updatePRRecordCommentId(prs, repoFullName, prNumber, githubUserId, commentId) ==
    [i \in 1..Len(prs) |->
        IF SameTriple(prs[i], repoFullName, prNumber, githubUserId)
        THEN [prs[i] EXCEPT !.comment_id = commentId]
        ELSE prs[i]]

updatePRRecordAgreementUid(prs, repoFullName, prNumber, githubUserId, agreementUid) ==
    [i \in 1..Len(prs) |->
        IF SameTriple(prs[i], repoFullName, prNumber, githubUserId)
        THEN [prs[i] EXCEPT !.concord_agreement_uid = agreementUid]
        ELSE prs[i]]

\* ------------------------------------------------------------ configuration
\* Values of CLA_EXEMPTED_USERS, character by character: "Bob, EVE ," and " ALICE ,bob"
EnvBobEve == <<"B", "o", "b", ",", " ", "E", "V", "E", " ", ",">>
EnvAliceBob == <<" ", "A", "L", "I", "C", "E", " ", ",", "b", "o", "b">>

toLowerCase(s) ==
    [i \in 1..Len(s) |->
        CASE s[i] = "A" -> "a" [] s[i] = "B" -> "b" [] s[i] = "C" -> "c"
          [] s[i] = "E" -> "e" [] s[i] = "I" -> "i" [] s[i] = "L" -> "l"
          [] s[i] = "O" -> "o" [] s[i] = "V" -> "v" [] s[i] = "R" -> "r"
          [] s[i] = "S" -> "s" [] s[i] = "N" -> "n" [] s[i] = "D" -> "d"
          [] OTHER -> s[i]]

RECURSIVE split(_, _)
split(s, sep) ==
    IF \E i \in 1..Len(s) : s[i] = sep
    THEN LET k == CHOOSE i \in 1..Len(s) : s[i] = sep /\ \A j \in 1..(i - 1) : s[j] # sep
         IN <<SubSeq(s, 1, k - 1)>> \o split(SubSeq(s, k + 1, Len(s)), sep)
    ELSE <<s>>

RECURSIVE trim(_)
trim(s) ==
    IF Len(s) > 0 /\ s[1] = " " THEN trim(Tail(s))
    ELSE IF Len(s) > 0 /\ s[Len(s)] = " " THEN trim(SubSeq(s, 1, Len(s) - 1))
    ELSE s

parseExemptedUsers(envUsers) ==
    LET parts == split(envUsers, ",")
        envUserList == SelectSeq([i \in 1..Len(parts) |-> toLowerCase(trim(parts[i]))],
                                 LAMBDA u : Len(u) > 0)
    IN {envUserList[i] : i \in 1..Len(envUserList)}

\* ------------------------------------------------------------------- state
VARIABLES
    cla_records,          \* table cla_records
    pr_records,           \* table pr_records
    concord,              \* agreements created in Concord: concord[uid] is the PR it was made for
    head,                 \* GitHub: head commit of each pull request
    status,               \* GitHub: filigran/cla commit status of each commit of each pull request
    labels,               \* GitHub: CLA labels on each pull request
    comments,             \* GitHub: issue comments, comments[id] = [pr, body]
    threads,              \* the webhook requests being served, each at its program point
    exemptedUsers,        \* config.cla.exemptedUsers
    skipOrgMemberCheck,   \* config.cla.skipOrgMemberCheck
    nEvents,              \* number of webhooks received, restarts and direct store calls
    nFaults,              \* number of awaited calls that went wrong
    observe,              \* what a request's frame keeps for the properties to look at:
                          \* "calls" the statuses and labels it sent and what it read
                          \* from GitHub, "prev" the previous request, "email" the
                          \* resolved e-mail,
                          \* "member" what the organization would say of the author,
                          \* "body" the body of a comment and what it was made on
    emailInput,           \* what the e-mail resolution is applied to, where it is
                          \* studied on its own
    prCall                \* the last createPRRecord call, where the PR-record upsert is
                          \* studied on its own: the table before it and the record given

vars == <<cla_records, pr_records, concord, head, status, labels, comments, threads,
          exemptedUsers, skipOrgMemberCheck, nEvents, nFaults, observe, emailInput,
          prCall>>

\* Variant: the login is compared as it is written.
isUserExempted_CaseSensitive(username) == username \in exemptedUsers

isUserExempted(username) == toLowerCase(username) \in exemptedUsers

\* What one handler invocation did to the outside world and to the store.
EmptyLog == [concord |-> <<>>, comments |-> <<>>, statuses |-> <<>>, labels |-> <<>>,
             edits |-> <<>>, writes |-> <<>>, items |-> <<>>, reads |-> <<>>]

NoEvent == [event |-> "none", action |-> "none", installation |-> FALSE, pr |-> PRA,
            sha |-> 1, ref |-> NullId, sref |-> NullId, requester |-> <<>>,
            signature |-> "none", body |-> <<>>, isPullRequest |-> FALSE]

\* The request answered just before on the same connection: what it was, how it ended.
NoPrev == [event |-> "none", action |-> "none", pr |-> PRA, sha |-> 1,
           path |-> "none", resp |-> 0, fresh |-> FALSE]

\* The frame of a request: where it waits, what it read and was answered (the uid of the
\* agreement created, the id of the comment posted, the head commit fetched), what it
\* has done so far.
IdleThread == [pc |-> "idle", ev |-> NoEvent, resp |-> 0, path |-> "none",
               exempt |-> "no", member |-> FALSE, existingCLA |-> NoCLA, email |-> <<>>,
               uid |-> NullId, commentId |-> NullId, headSha |-> NullId,
               todo |-> <<>>, log |-> EmptyLog,
               snap |-> [cla |-> <<>>, prs |-> <<>>], prev |-> NoPrev]

\* The world as one handler sees it: the shared state and its own frame.
World(t) == [cla |-> cla_records, prs |-> pr_records, concord |-> concord,
             head |-> head, status |-> status, labels |-> labels,
             comments |-> comments, th |-> threads[t]]

Commit(t, w) ==
    /\ cla_records' = w.cla
    /\ pr_records' = w.prs
    /\ concord' = w.concord
    /\ head' = w.head
    /\ status' = w.status
    /\ labels' = w.labels
    /\ comments' = w.comments
    /\ threads' = [threads EXCEPT ![t] = w.th]

\* ------------------------------------------------------- platform client
createCLAStatus(w, pr, sha, signed) ==
    LET state == IF signed THEN "success" ELSE "pending"
    IN [w EXCEPT !.status[pr][sha] = state,
                 !.th.log.statuses = IF "calls" \in observe
                                     THEN Append(@, [pr |-> pr, sha |-> sha, state |-> state])
                                     ELSE @]

AddLabel(w, pr, name, ok) ==
    [w EXCEPT !.labels[pr] = IF ok THEN @ \cup {name} ELSE @,
              !.th.log.labels = IF "calls" \in observe
                                THEN Append(@, [pr |-> pr, op |-> "add", name |-> name, ok |-> ok])
                                ELSE @]

RemoveLabel(w, pr, name, ok) ==
    [w EXCEPT !.labels[pr] = IF ok THEN @ \ {name} ELSE @,
              !.th.log.labels = IF "calls" \in observe
                                THEN Append(@, [pr |-> pr, op |-> "remove", name |-> name,
                                                ok |-> ok])
                                ELSE @]

\* The three helpers catch and log a rejected request: ok tells whether GitHub took it.
addCLAPendingLabel(w, pr, ok) == AddLabel(w, pr, "cla:pending", ok)

addCLAExemptLabel(w, pr, ok) == AddLabel(w, pr, "cla:exempt", ok)

\* updateCLALabels makes two requests, each in a try of its own.
updateCLALabelsRemove(w, pr, ok) == RemoveLabel(w, pr, "cla:pending", ok)

updateCLALabelsAdd(w, pr, ok) == AddLabel(w, pr, "cla:signed", ok)

updateCLALabels(w, pr, removeOk, addOk) ==
    updateCLALabelsAdd(updateCLALabelsRemove(w, pr, removeOk), pr, addOk)

removeCLAPendingLabel(w, pr) == RemoveLabel(w, pr, "cla:pending", TRUE)

\* octokit.issues.createComment: the new comment's id is its position.
\* mention is the user the body addresses with @.
createComment(w, pr, body, mention) ==
    [w EXCEPT !.comments = Append(@, [pr |-> pr, body |-> body, mention |-> mention]),
              !.th.log.comments = Append(@, [pr |-> pr, body |-> body, mention |-> mention])]

createCLAPendingComment(w, pr, username) == createComment(w, pr, "pending", username)

updateCommentCLASigned(w, commentId) ==
    [w EXCEPT !.comments = [i \in 1..Len(@) |->
                               IF i = commentId THEN [@[i] EXCEPT !.body = "signed"] ELSE @[i]],
              !.th.log.edits = Append(@, commentId)]

\* ------------------------------------------------------- store, as calls
LogWrite(w, name) == [w EXCEPT !.th.log.writes = Append(@, name)]

LogConcord(w, name) == [w EXCEPT !.th.log.concord = Append(@, name)]

\* Variant: the router answers 200 whether or not the handler threw.
Finish_AlwaysSuccess(w, path, resp) ==
    [w EXCEPT !.th.pc = "done", !.th.path = path, !.th.resp = IF resp = 401 THEN 401 ELSE 200]

Finish(w, path, resp) == [w EXCEPT !.th.pc = "done", !.th.path = path, !.th.resp = resp]

\* ------------------------------------------------------- agreement client
\* E-mail addresses are sequences of tokens; <<>> is null.
AliceMail == <<"alice", "@", "example.com">>
AliceCorpMail == <<"alice", "@", "corp.com">>
AliceOldMail == <<"alice", "@", "old.org">>
AliceRelayMail == <<"42", "+", "A", "l", "i", "c", "e", "@", "users.", "noreply.github.com">>

\* commit author e-mails of a pull request, as getPRCommitEmails may return them
CommitEmailLists == {<<>>, <<AliceMail>>, <<AliceRelayMail, AliceCorpMail>>,
                     <<AliceRelayMail>>, <<AliceOldMail>>}

\* public profile e-mail, as getUserEmail may return it
ProfileEmails == {<<>>, AliceMail}

\* (commit e-mails, profile e-mail) of a contributor; the profile is asked for only
\* when the commits give no address
EmailCases == {c \in CommitEmailLists \X ProfileEmails : c[1] # <<>> => c[2] = <<>>}

\* e.includes('noreply.github.com')
IncludesNoreply(e) == \E i \in 1..Len(e) : e[i] = "noreply.github.com"

\* Variant: relay addresses among the commit e-mails are never used.
ResolveUserEmail_SkipsRelay(commitEmails, profileEmail, userId, username) ==
    LET realEmails == SelectSeq(commitEmails, LAMBDA e : ~IncludesNoreply(e))
        fromProfile == IF Len(realEmails) > 0 THEN realEmails[1] ELSE profileEmail
    IN IF fromProfile # <<>> THEN fromProfile
       ELSE <<ToString(userId), "+">> \o username \o <<"@", "users.", "noreply.github.com">>

\* The e-mail the handlers use for a contributor.
ResolveUserEmail(commitEmails, profileEmail, userId, username) ==
    LET realEmails == SelectSeq(commitEmails, LAMBDA e : ~IncludesNoreply(e))
        fromCommits == IF Len(commitEmails) > 0
                       THEN (IF Len(realEmails) > 0 THEN realEmails[1] ELSE commitEmails[1])
                       ELSE <<>>
        fromProfile == IF fromCommits # <<>> THEN fromCommits ELSE profileEmail
    IN IF fromProfile # <<>> THEN fromProfile
       ELSE <<ToString(userId), "+">> \o username \o <<"@", "users.", "noreply.github.com">>

\* Inputs of the e-mail resolution taken on its own: up to MaxCommitEmails distinct
\* commit author e-mails (getPRCommitEmails returns the elements of a Set), a profile
\* e-mail or none, the contributor.
BobRelayMail == <<"7", "+", "b", "o", "b", "@", "users.", "noreply.github.com">>
InputEmails == {AliceMail, AliceCorpMail, AliceRelayMail, BobRelayMail}
IsDistinct(seq) == \A i, j \in 1..Len(seq) : seq[i] = seq[j] => i = j
DistinctLists(n) == {seq \in UNION {[1..k -> InputEmails] : k \in 0..n} : IsDistinct(seq)}
InputUsers == {[id |-> 42, login |-> Alice], [id |-> 7, login |-> Bob]}
NoEmailInput == [commitEmails |-> <<>>, profileEmail |-> <<>>,
                 user |-> [id |-> NullId, login |-> <<>>]]
EmailInputs == [commitEmails : DistinctLists(MaxCommitEmails),
                profileEmail : {<<>>, AliceMail, AliceCorpMail},
                user : InputUsers]

\* The GitHub requests of the e-mail resolution: the commits of the PR, then the
\* author's profile when the commits gave no address.
LogEmailReads(w, commitEmails) ==
    [w EXCEPT !.th.log.reads =
         IF "calls" \in observe
         THEN @ \o (IF Len(commitEmails) > 0 THEN <<"listCommits">>
                    ELSE <<"listCommits", "getByUsername">>)
         ELSE @]

\* Agreements that exist in Concord without this bot: what the search
\* (statuses CURRENT_CONTRACT, UNKNOWN_CONTRACT) lists for an e-mail.
ConcordSearchItems(email) ==
    IF email = AliceCorpMail THEN <<[uid |-> 90, status |-> "CURRENT_CONTRACT"]>>
    ELSE IF email = AliceOldMail THEN <<[uid |-> 91, status |-> "UNKNOWN_CONTRACT"]>>
    ELSE <<>>

NoAgreement == [uid |-> NullId, status |-> "null"]

\* The first item of the search, null when there is none or the request fails.
findExistingCLAByEmail(email, searchOk) ==
    IF searchOk /\ Len(ConcordSearchItems(email)) > 0
    THEN ConcordSearchItems(email)[1]
    ELSE NoAgreement

\* The agreement is created in Concord and its uid returned.
createAgreementFromTemplate(w, pr) ==
    [w EXCEPT !.concord = Append(@, pr),
              !.th.uid = Len(w.concord) + 1,
              !.th.log.concord = Append(@, "create")]

\* --------------------------------------------- handlePullRequestEvent
\* Variant: closing a pull request is processed like opening it.
HandledActions_WithClosed == {"opened", "synchronize", "reopened", "closed"}

HandledActions == {"opened", "synchronize", "reopened"}

\* Variant: the organization is asked about every contributor who is not listed,
\* whatever the skip flag says.
PRBegin_IgnoresSkipFlag(w, isMember, memberDefined) ==
    LET username == PRAuthor(w.th.ev.pr).login
        isWhitelisted == isUserExempted(username)
        isOrgMember == ~isWhitelisted /\ isMember
    IN IF w.th.ev.action \notin HandledActions THEN Finish(w, "ignored", 200)
       ELSE IF ~w.th.ev.installation THEN Finish(w, "no_installation", 200)
       ELSE IF ~isWhitelisted /\ ~memberDefined THEN Finish(w, "member_check_threw", 500)
       ELSE [w EXCEPT !.th.pc = "classify",
                      !.th.member = isMember /\ "member" \in observe,
                      !.th.log.reads = IF ~isWhitelisted
                                       THEN Append(@, "isOrganizationMember") ELSE @,
                      !.th.exempt = IF isWhitelisted THEN "whitelist"
                                    ELSE IF isOrgMember THEN "org_member" ELSE "no"]

\* Entry: the action and installation checks, the exemption check. isMember is what
\* the organization would answer; it is asked only when the && chain gets that far.
\* services/github.ts as it is at hand exports no isOrganizationMember; memberDefined
\* tells whether the build that runs has it. Without it the call throws a TypeError
\* and the router answers 500.
PRBegin(w, isMember, memberDefined) ==
    LET username == PRAuthor(w.th.ev.pr).login
        isWhitelisted == isUserExempted(username)
        asked == ~isWhitelisted /\ ~skipOrgMemberCheck
        isOrgMember == asked /\ isMember
    IN IF w.th.ev.action \notin HandledActions THEN Finish(w, "ignored", 200)
       ELSE IF ~w.th.ev.installation THEN Finish(w, "no_installation", 200)
       ELSE IF asked /\ ~memberDefined THEN Finish(w, "member_check_threw", 500)
       ELSE [w EXCEPT !.th.pc = "classify",
                      !.th.member = isMember /\ "member" \in observe,
                      !.th.log.reads = IF asked THEN Append(@, "isOrganizationMember") ELSE @,
                      !.th.exempt = IF isWhitelisted THEN "whitelist"
                                    ELSE IF isOrgMember THEN "org_member" ELSE "no"]

\* Variant: no shortcut for a PR that is pending and tracked.
PRBranch_NoPendingShortcut(w) ==
    LET existingCLA == findCLAByGitHubUserId(w.cla, PRAuthor(w.th.ev.pr).id)
    IN IF w.th.exempt # "no" THEN "exempt_status"
       ELSE IF existingCLA # NoCLA /\ existingCLA.status = "signed" THEN "signed_status"
       ELSE "resolve"

\* Variant: the signed shortcut is taken only on a PR that has a PR record.
PRBranch_SignedNeedsPRRecord(w) ==
    LET pr == w.th.ev.pr
        userId == PRAuthor(pr).id
        existingCLA == findCLAByGitHubUserId(w.cla, userId)
        prRecord == findPRRecord(w.prs, pr.repo, pr.number, userId)
    IN IF w.th.exempt # "no" THEN "exempt_status"
       ELSE IF prRecord # NoPR /\ existingCLA # NoCLA /\ existingCLA.status = "signed"
       THEN "signed_status"
       ELSE IF prRecord # NoPR /\ existingCLA # NoCLA /\ existingCLA.status = "pending"
       THEN "pending_status"
       ELSE "resolve"

\* Variant: a cancelled record still counts as signed.
PRBranch_CancelledStaysSigned(w) ==
    LET pr == w.th.ev.pr
        userId == PRAuthor(pr).id
        existingCLA == findCLAByGitHubUserId(w.cla, userId)
        prRecord == findPRRecord(w.prs, pr.repo, pr.number, userId)
    IN IF w.th.exempt # "no" THEN "exempt_status"
       ELSE IF existingCLA # NoCLA /\ existingCLA.status \in {"signed", "cancelled"}
       THEN "signed_status"
       ELSE IF prRecord # NoPR /\ existingCLA # NoCLA /\ existingCLA.status = "pending"
       THEN "pending_status"
       ELSE "resolve"

\* The branch taken once the exemption is known, from the author's CLA record and the
\* PR record: the call the handler makes next.
PRBranch(w) ==
    LET pr == w.th.ev.pr
        userId == PRAuthor(pr).id
        existingCLA == findCLAByGitHubUserId(w.cla, userId)
        prRecord == findPRRecord(w.prs, pr.repo, pr.number, userId)
    IN IF w.th.exempt # "no" THEN "exempt_status"
       ELSE IF existingCLA # NoCLA /\ existingCLA.status = "signed" THEN "signed_status"
       ELSE IF prRecord # NoPR /\ existingCLA # NoCLA /\ existingCLA.status = "pending"
       THEN "pending_status"
       ELSE "resolve"

\* Variant: the pending, tracked PR is given the success status.
PRPendingTracked_SetsSuccess(w, f) ==
    IF f = 1 THEN Finish(w, "pending_tracked", 500)
    ELSE Finish(createCLAStatus(w, w.th.ev.pr, w.th.ev.sha, TRUE), "pending_tracked", 200)

\* Variant: the pending, tracked PR also gets the pending label again.
PRPendingTracked_AlsoLabels(w, f) ==
    IF f = 1 THEN Finish(w, "pending_tracked", 500)
    ELSE Finish(addCLAPendingLabel(createCLAStatus(w, w.th.ev.pr, w.th.ev.sha, FALSE),
                                   w.th.ev.pr, TRUE),
                "pending_tracked", 200)

\* Pending and tracked: the pending status again, nothing else.
PRPendingTracked(w, f) ==
    IF f = 1 THEN Finish(w, "pending_tracked", 500)
    ELSE Finish(createCLAStatus(w, w.th.ev.pr, w.th.ev.sha, FALSE), "pending_tracked", 200)

\* A handler runs from one await to the next; the frame's pc names the call it waits
\* for. f = 1: that call fails (a label request: GitHub rejects it and the helper
\* catches it).
\* Exempt, already signed, already pending and tracked, or go on.
PRClassify(w, f) ==
    LET pr == w.th.ev.pr
        sha == w.th.ev.sha
    IN CASE w.th.pc = "classify" ->
              [w EXCEPT !.th.pc = PRBranch(w),
                        !.th.existingCLA =
                            IF PRBranch(w) = "resolve"
                            THEN findCLAByGitHubUserId(w.cla, PRAuthor(pr).id) ELSE @]
         [] w.th.pc = "exempt_status" ->
              IF f = 1 THEN Finish(w, "exempt", 500)
              ELSE [createCLAStatus(w, pr, sha, TRUE) EXCEPT !.th.pc = "exempt_label"]
         [] w.th.pc = "exempt_label" ->
              Finish(addCLAExemptLabel(w, pr, f = 0), "exempt", 200)
         [] w.th.pc = "signed_status" ->
              IF f = 1 THEN Finish(w, "signed", 500)
              ELSE [createCLAStatus(w, pr, sha, TRUE) EXCEPT !.th.pc = "signed_unlabel"]
         [] w.th.pc = "signed_unlabel" ->
              [updateCLALabelsRemove(w, pr, f = 0) EXCEPT !.th.pc = "signed_label"]
         [] w.th.pc = "signed_label" ->
              Finish(updateCLALabelsAdd(w, pr, f = 0), "signed", 200)
         [] w.th.pc = "pending_status" -> PRPendingTracked(w, f)

PRClassifyPoints == {"classify", "exempt_status", "exempt_label", "signed_status",
                     "signed_unlabel", "signed_label", "pending_status"}

\* Variant: the externally signed contributor's PR also gets a PR record.
PRSignedExternally_AlsoTracks(w, existingConcordCLA, f) ==
    LET pr == w.th.ev.pr
    IN CASE w.th.pc = "resolve" ->
              [LogWrite([w EXCEPT !.cla = createCLARecord(@,
                           [github_user_id |-> PRAuthor(pr).id,
                            concord_agreement_uid |-> existingConcordCLA.uid,
                            status |-> "signed", signed_at |-> Now]),
                                  !.prs = createPRRecord(@,
                           [repo_full_name |-> pr.repo, pr_number |-> pr.number,
                            github_user_id |-> PRAuthor(pr).id, comment_id |-> NullId,
                            concord_agreement_uid |-> existingConcordCLA.uid])],
                        "createCLARecord")
                  EXCEPT !.th.pc = "external_status"]
         [] w.th.pc = "external_status" ->
              IF f = 1 THEN Finish(w, "external", 500)
              ELSE [createCLAStatus(w, pr, w.th.ev.sha, TRUE) EXCEPT !.th.pc = "external_unlabel"]
         [] w.th.pc = "external_unlabel" ->
              [updateCLALabelsRemove(w, pr, f = 0) EXCEPT !.th.pc = "external_label"]
         [] w.th.pc = "external_label" ->
              Finish(updateCLALabelsAdd(w, pr, f = 0), "external", 200)

\* Signed in Concord outside the bot: record it, then success status and labels.
PRSignedExternally(w, existingConcordCLA, f) ==
    LET pr == w.th.ev.pr
    IN CASE w.th.pc = "resolve" ->
              [LogWrite([w EXCEPT !.cla = createCLARecord(@,
                           [github_user_id |-> PRAuthor(pr).id,
                            concord_agreement_uid |-> existingConcordCLA.uid,
                            status |-> "signed", signed_at |-> Now])], "createCLARecord")
                  EXCEPT !.th.pc = "external_status"]
         [] w.th.pc = "external_status" ->
              IF f = 1 THEN Finish(w, "external", 500)
              ELSE [createCLAStatus(w, pr, w.th.ev.sha, TRUE) EXCEPT !.th.pc = "external_unlabel"]
         [] w.th.pc = "external_unlabel" ->
              [updateCLALabelsRemove(w, pr, f = 0) EXCEPT !.th.pc = "external_label"]
         [] w.th.pc = "external_label" ->
              Finish(updateCLALabelsAdd(w, pr, f = 0), "external", 200)

\* Variant: the failed creation leaves a pending CLA record and a PR record behind.
PRCreateFailed_KeepsRecords(w, f) ==
    LET pr == w.th.ev.pr
    IN CASE w.th.pc = "create" ->
              [LogConcord([w EXCEPT !.cla = createCLARecord(@,
                             [github_user_id |-> PRAuthor(pr).id,
                              concord_agreement_uid |-> NullId,
                              status |-> "pending", signed_at |-> NullTs]),
                                    !.prs = createPRRecord(@,
                             [repo_full_name |-> pr.repo, pr_number |-> pr.number,
                              github_user_id |-> PRAuthor(pr).id, comment_id |-> NullId,
                              concord_agreement_uid |-> NullId])], "create")
                  EXCEPT !.th.pc = "fail_label"]
         [] w.th.pc = "fail_label" ->
              [addCLAPendingLabel(w, pr, f = 0) EXCEPT !.th.pc = "fail_status"]
         [] w.th.pc = "fail_status" ->
              IF f = 1 THEN Finish(w, "create_failed", 500)
              ELSE [createCLAStatus(w, pr, w.th.ev.sha, FALSE) EXCEPT !.th.pc = "fail_comment"]
         [] w.th.pc = "fail_comment" ->
              IF f = 1 THEN Finish(w, "create_failed", 500)
              ELSE Finish(createComment(w, pr, "manual", PRAuthor(pr).login),
                          "create_failed", 200)

\* Agreement creation failed: label, pending status and a comment, nothing stored.
PRCreateFailed(w, f) ==
    LET pr == w.th.ev.pr
    IN CASE w.th.pc = "create" ->
              [LogConcord(w, "create") EXCEPT !.th.pc = "fail_label"]
         [] w.th.pc = "fail_label" ->
              [addCLAPendingLabel(w, pr, f = 0) EXCEPT !.th.pc = "fail_status"]
         [] w.th.pc = "fail_status" ->
              IF f = 1 THEN Finish(w, "create_failed", 500)
              ELSE [createCLAStatus(w, pr, w.th.ev.sha, FALSE) EXCEPT !.th.pc = "fail_comment"]
         [] w.th.pc = "fail_comment" ->
              IF f = 1 THEN Finish(w, "create_failed", 500)
              ELSE Finish(createComment(w, pr, "manual", PRAuthor(pr).login),
                          "create_failed", 200)

\* Agreement created: save the CLA record and the PR record.
PRSaveRecords(w) ==
    LET pr == w.th.ev.pr
        w2 == LogWrite([w EXCEPT !.cla = createCLARecord(@,
                           [github_user_id |-> PRAuthor(pr).id,
                            concord_agreement_uid |-> w.th.uid,
                            status |-> "pending", signed_at |-> NullTs])], "createCLARecord")
        w3 == LogWrite([w2 EXCEPT !.prs = createPRRecord(@,
                           [repo_full_name |-> pr.repo, pr_number |-> pr.number,
                            github_user_id |-> PRAuthor(pr).id, comment_id |-> NullId,
                            concord_agreement_uid |-> w.th.uid])], "createPRRecord")
    IN [w3 EXCEPT !.th.pc = "label"]

\* E-mail resolution and the search in Concord; the creation of the agreement; what
\* follows the answer of each.
PRResolve(w, commitEmails, profileEmail, searchOk, createOk, f) ==
    LET author == PRAuthor(w.th.ev.pr)
        userEmail == ResolveUserEmail(commitEmails, profileEmail, author.id, author.login)
        existingConcordCLA == findExistingCLAByEmail(userEmail, searchOk)
        w0 == LogEmailReads(w, commitEmails)
        w1 == LogConcord([w0 EXCEPT !.th.email = IF "email" \in observe THEN userEmail
                                                ELSE <<>>], "search")
    IN CASE w.th.pc = "resolve" ->
              IF existingConcordCLA # NoAgreement
                 /\ existingConcordCLA.status = "CURRENT_CONTRACT"
              THEN PRSignedExternally(w1, existingConcordCLA, f)
              ELSE [w1 EXCEPT !.th.pc = "create"]
         [] w.th.pc = "create" ->
              IF ~createOk THEN PRCreateFailed(w, f)
              ELSE [createAgreementFromTemplate(w, w.th.ev.pr) EXCEPT !.th.pc = "save"]
         [] w.th.pc = "save" -> PRSaveRecords(w)
         [] w.th.pc \in {"external_status", "external_unlabel", "external_label"} ->
              PRSignedExternally(w, NoAgreement, f)
         [] w.th.pc \in {"fail_label", "fail_status", "fail_comment"} ->
              PRCreateFailed(w, f)

PRResolvePoints == {"resolve", "create", "save", "external_status", "external_unlabel",
                    "external_label", "fail_label", "fail_status", "fail_comment"}

\* Variant: the id of the posted comment is not written into the PR record.
PRComment_CommentIdLost(w, f) ==
    LET pr == w.th.ev.pr
    IN CASE w.th.pc = "label" ->
              [addCLAPendingLabel(w, pr, f = 0) EXCEPT !.th.pc = "comment"]
         [] w.th.pc = "comment" ->
              IF f = 1 THEN Finish(w, "created", 500)
              ELSE [createCLAPendingComment(w, pr, PRAuthor(pr).login)
                       EXCEPT !.th.commentId = Len(w.comments) + 1, !.th.pc = "comment_id"]
         [] w.th.pc = "comment_id" -> [w EXCEPT !.th.pc = "status"]
         [] w.th.pc = "status" ->
              IF f = 1 THEN Finish(w, "created", 500)
              ELSE Finish(createCLAStatus(w, pr, w.th.ev.sha, FALSE), "created", 200)

\* Label, pending comment, its id into the PR record, pending status.
PRComment(w, f) ==
    LET pr == w.th.ev.pr
    IN CASE w.th.pc = "label" ->
              [addCLAPendingLabel(w, pr, f = 0) EXCEPT !.th.pc = "comment"]
         [] w.th.pc = "comment" ->
              IF f = 1 THEN Finish(w, "created", 500)
              ELSE [createCLAPendingComment(w, pr, PRAuthor(pr).login)
                       EXCEPT !.th.commentId = Len(w.comments) + 1, !.th.pc = "comment_id"]
         [] w.th.pc = "comment_id" ->
              [LogWrite([w EXCEPT !.prs = updatePRRecordCommentId(@, pr.repo, pr.number,
                                              PRAuthor(pr).id, w.th.commentId)],
                        "updatePRRecordCommentId")
                  EXCEPT !.th.pc = "status"]
         [] w.th.pc = "status" ->
              IF f = 1 THEN Finish(w, "created", 500)
              ELSE Finish(createCLAStatus(w, pr, w.th.ev.sha, FALSE), "created", 200)

PRCommentPoints == {"label", "comment", "comment_id", "status"}

\* ------------------------------------------------ agreement-event handlers
PRRecordKey(prRecord) == [repo |-> prRecord.repo_full_name, number |-> prRecord.pr_number]

\* Variant: only the PR records that carry the signed agreement uid are queued.
MarkSignedAndList_OnlySameAgreement(w, claRecord, agreementUid, path) ==
    LET w1 == LogWrite([w EXCEPT !.cla = updateCLAStatusByAgreementUid(@, agreementUid,
                                              "signed", Now)],
                       "updateCLAStatusByAgreementUid")
        prRecords == SelectSeq(findPRRecordsByGitHubUserId(w1.prs, claRecord.github_user_id),
                               LAMBDA r : r.concord_agreement_uid = agreementUid)
    IN IF Len(prRecords) = 0 THEN Finish(w1, path, 200)
       ELSE [w1 EXCEPT !.th.pc = "fanout", !.th.path = path, !.th.todo = prRecords,
                       !.th.existingCLA = claRecord]

\* Mark signed, then queue the contributor's PR records for the update loop.
MarkSignedAndList(w, claRecord, agreementUid, path) ==
    LET w1 == LogWrite([w EXCEPT !.cla = updateCLAStatusByAgreementUid(@, agreementUid,
                                              "signed", Now)],
                       "updateCLAStatusByAgreementUid")
        prRecords == findPRRecordsByGitHubUserId(w1.prs, claRecord.github_user_id)
    IN IF Len(prRecords) = 0 THEN Finish(w1, path, 200)
       ELSE [w1 EXCEPT !.th.pc = "fanout", !.th.path = path, !.th.todo = prRecords,
                       !.th.existingCLA = claRecord]

handleAgreementExecuted(w) ==
    LET agreementUid == w.th.ev.ref
        signedAgreementUid == IF w.th.ev.sref # NullId THEN w.th.ev.sref ELSE agreementUid
        first == findCLAByAgreementUid(w.cla, agreementUid)
        claRecord == IF first = NoCLA /\ signedAgreementUid # agreementUid
                     THEN findCLAByAgreementUid(w.cla, signedAgreementUid)
                     ELSE first
    IN IF claRecord = NoCLA THEN Finish(w, "no_record", 200)
       ELSE MarkSignedAndList(w, claRecord, claRecord.concord_agreement_uid, "executed")

\* Variant: a signature for an unknown agreement is answered with a server error.
handleNewSignature_UnknownFails(w) ==
    LET agreementUid == w.th.ev.ref
        claRecord == findCLAByAgreementUid(w.cla, agreementUid)
    IN IF claRecord = NoCLA THEN Finish(w, "no_record", 500)
       ELSE IF claRecord.status = "signed" THEN Finish(w, "already_signed", 200)
       ELSE MarkSignedAndList(w, claRecord, agreementUid, "new_signature")

handleNewSignature(w) ==
    LET agreementUid == w.th.ev.ref
        claRecord == findCLAByAgreementUid(w.cla, agreementUid)
    IN IF claRecord = NoCLA THEN Finish(w, "no_record", 200)
       ELSE IF claRecord.status = "signed" THEN Finish(w, "already_signed", 200)
       ELSE MarkSignedAndList(w, claRecord, agreementUid, "new_signature")

\* Variant: a cancellation also walks the contributor's PR records.
handleAgreementCancelled_FansOut(w) ==
    LET w1 == LogWrite([w EXCEPT !.cla = updateCLAStatusByAgreementUid(@, w.th.ev.ref,
                                              "cancelled", NullTs)],
                       "updateCLAStatusByAgreementUid")
        claRecord == findCLAByAgreementUid(w.cla, w.th.ev.ref)
        prRecords == findPRRecordsByGitHubUserId(w1.prs, claRecord.github_user_id)
    IN IF claRecord = NoCLA \/ Len(prRecords) = 0 THEN Finish(w1, "cancelled", 200)
       ELSE [w1 EXCEPT !.th.pc = "fanout", !.th.path = "cancelled", !.th.todo = prRecords,
                       !.th.existingCLA = claRecord]

handleAgreementCancelled(w) ==
    Finish(LogWrite([w EXCEPT !.cla = updateCLAStatusByAgreementUid(@, w.th.ev.ref,
                                          "cancelled", NullTs)],
                    "updateCLAStatusByAgreementUid"),
           "cancelled", 200)

\* What can happen to the update of one tracked PR.
FanOutOutcomes == {"ok", "installations_throw", "no_installation", "fetch_fails",
                   "comment_fails", "label_throws", "status_throws"}

\* What the call awaited at a program point of the update can answer.
FanOutOutcomesAt(pc) ==
    CASE pc = "fanout" -> {"ok", "installations_throw", "no_installation", "fetch_fails"}
      [] pc = "fanout_comment" -> {"ok", "comment_fails"}
      [] pc = "fanout_unlabel" -> {"ok", "label_throws"}
      [] pc = "fanout_status" -> {"ok", "status_throws"}
      [] OTHER -> {}

\* The outcome of the PR being updated is what went wrong last.
SetItemOutcome(w, outcome) ==
    LET items == w.th.log.items
    IN [w EXCEPT !.th.log.items = [items EXCEPT ![Len(items)].outcome = outcome]]

\* Variant: a failed comment update aborts the update of that PR.
updatePRAfterSigning_CommentAborts(w, prRecord, outcome) ==
    LET pr == PRRecordKey(prRecord)
        w1 == [w EXCEPT !.th.log.items = Append(@, [pr |-> pr, outcome |-> outcome])]
    IN CASE w.th.pc = "fanout" ->
              IF outcome = "installations_throw" THEN [w1 EXCEPT !.th.pc = "fanout_threw"]
              ELSE IF outcome \in {"no_installation", "fetch_fails"}
              THEN [w1 EXCEPT !.th.pc = "fanout_returned"]
              ELSE [w1 EXCEPT !.th.headSha = w.head[pr],
                              !.th.pc = IF prRecord.comment_id # NullId
                                        THEN "fanout_comment" ELSE "fanout_unlabel"]
         [] w.th.pc = "fanout_comment" ->
              IF outcome = "comment_fails"
              THEN [SetItemOutcome(w, outcome) EXCEPT !.th.pc = "fanout_returned"]
              ELSE [updateCommentCLASigned(w, prRecord.comment_id)
                       EXCEPT !.th.pc = "fanout_unlabel"]
         [] w.th.pc = "fanout_unlabel" ->
              IF outcome = "label_throws"
              THEN [SetItemOutcome(w, outcome) EXCEPT !.th.pc = "fanout_threw"]
              ELSE [removeCLAPendingLabel(w, pr) EXCEPT !.th.pc = "fanout_status"]
         [] w.th.pc = "fanout_status" ->
              IF outcome = "status_throws"
              THEN [SetItemOutcome(w, outcome) EXCEPT !.th.pc = "fanout_threw"]
              ELSE [createCLAStatus(w, pr, w.th.headSha, TRUE)
                       EXCEPT !.th.pc = "fanout_returned"]

\* updatePRAfterSigning on one PR record, from one await to the next: the installation
\* and the PR are looked up, the comment is edited, the label removed, the status set.
\* It ends by returning or by a throw, which the caller's loop catches.
updatePRAfterSigning(w, prRecord, outcome) ==
    LET pr == PRRecordKey(prRecord)
        w1 == [w EXCEPT !.th.log.items = Append(@, [pr |-> pr, outcome |-> outcome])]
    IN CASE w.th.pc = "fanout" ->
              IF outcome = "installations_throw" THEN [w1 EXCEPT !.th.pc = "fanout_threw"]
              ELSE IF outcome \in {"no_installation", "fetch_fails"}
              THEN [w1 EXCEPT !.th.pc = "fanout_returned"]
              ELSE [w1 EXCEPT !.th.headSha = w.head[pr],
                              !.th.pc = IF prRecord.comment_id # NullId
                                        THEN "fanout_comment" ELSE "fanout_unlabel"]
         [] w.th.pc = "fanout_comment" ->
              IF outcome = "comment_fails"
              THEN [SetItemOutcome(w, outcome) EXCEPT !.th.pc = "fanout_unlabel"]
              ELSE [updateCommentCLASigned(w, prRecord.comment_id)
                       EXCEPT !.th.pc = "fanout_unlabel"]
         [] w.th.pc = "fanout_unlabel" ->
              IF outcome = "label_throws"
              THEN [SetItemOutcome(w, outcome) EXCEPT !.th.pc = "fanout_threw"]
              ELSE [removeCLAPendingLabel(w, pr) EXCEPT !.th.pc = "fanout_status"]
         [] w.th.pc = "fanout_status" ->
              IF outcome = "status_throws"
              THEN [SetItemOutcome(w, outcome) EXCEPT !.th.pc = "fanout_threw"]
              ELSE [createCLAStatus(w, pr, w.th.headSha, TRUE)
                       EXCEPT !.th.pc = "fanout_returned"]

FanOutPoints == {"fanout", "fanout_comment", "fanout_unlabel", "fanout_status"}

\* Variant: a throw inside the loop leaves the loop and fails the request.
FanOutStep_NoCatch(w, outcome) ==
    LET w1 == updatePRAfterSigning(w, Head(w.th.todo), outcome)
        w2 == [w1 EXCEPT !.th.todo = Tail(@), !.th.pc = "fanout"]
    IN IF w1.th.pc \in FanOutPoints THEN w1
       ELSE IF w1.th.pc = "fanout_threw" THEN Finish(w2, w.th.path, 500)
       ELSE IF Len(w2.th.todo) = 0 THEN Finish(w2, w.th.path, 200) ELSE w2

\* One step of the loop over the PR records: the update of the first record goes on to
\* its next await, or it ends and the loop turns to the next record.
FanOutStep(w, outcome) ==
    LET w1 == updatePRAfterSigning(w, Head(w.th.todo), outcome)
        w2 == [w1 EXCEPT !.th.todo = Tail(@), !.th.pc = "fanout"]
    IN IF w1.th.pc \in FanOutPoints THEN w1
       ELSE IF Len(w2.th.todo) = 0 THEN Finish(w2, w.th.path, 200) ELSE w2

\* Variant: an agreement that moved to signing is taken as signed.
ConcordRoute_MovedCountsAsSigned(w) ==
    CASE w.th.ev.event = "AGREEMENT_EXECUTED" -> handleAgreementExecuted(w)
      [] w.th.ev.event = "AGREEMENT_NEW_SIGNATURE" -> handleNewSignature(w)
      [] w.th.ev.event = "AGREEMENT_CANCELLED" -> handleAgreementCancelled(w)
      [] w.th.ev.event = "AGREEMENT_MOVE_TO_SIGNING" -> handleNewSignature(w)
      [] OTHER -> Finish(w, "unhandled", 200)

\* Concord webhook router.
ConcordRoute(w) ==
    CASE w.th.ev.event = "AGREEMENT_EXECUTED" -> handleAgreementExecuted(w)
      [] w.th.ev.event = "AGREEMENT_NEW_SIGNATURE" -> handleNewSignature(w)
      [] w.th.ev.event = "AGREEMENT_CANCELLED" -> handleAgreementCancelled(w)
      [] w.th.ev.event = "AGREEMENT_MOVE_TO_SIGNING" -> Finish(w, "logged", 200)
      [] OTHER -> Finish(w, "unhandled", 200)

\* --------------------------------------------- handleIssueCommentEvent
ClaResend == <<"/", "c", "l", "a", " ", "r", "e", "s", "e", "n", "d">>

\* the command with blanks around it and in mixed case
PaddedResend == <<" ", "/", "C", "L", "A", " ", "R", "e", "s", "e", "n", "d", " ">>

\* comment bodies that arrive
CommentBodies == {ClaResend,
                  PaddedResend,
                  ClaResend \o <<" ", "n", "o", "w">>,
                  <<"/", "c", "l", "a">>}

\* Variant: an edited comment is a command too.
CmdBegin_EditedToo(w, isPullRequest, body) ==
    IF w.th.ev.action \notin {"created", "edited"} \/ ~isPullRequest
    THEN Finish(w, "ignored", 200)
    ELSE IF toLowerCase(trim(body)) # ClaResend THEN Finish(w, "ignored", 200)
    ELSE IF ~w.th.ev.installation THEN Finish(w, "no_installation", 200)
    ELSE [w EXCEPT !.th.pc = "cmd_check"]

\* Entry: only a new comment on a pull request whose body is the command.
CmdBegin(w, isPullRequest, body) ==
    IF w.th.ev.action # "created" \/ ~isPullRequest THEN Finish(w, "ignored", 200)
    ELSE IF toLowerCase(trim(body)) # ClaResend THEN Finish(w, "ignored", 200)
    ELSE IF ~w.th.ev.installation THEN Finish(w, "no_installation", 200)
    ELSE [w EXCEPT !.th.pc = "cmd_check"]

\* The fresh-agreement branch is entered: old record removed first. database.ts as it
\* is at hand exports no deleteCLAByGitHubUserId; deleteDefined tells whether the build
\* that runs has it. Without it the call throws a TypeError outside every try of the
\* handler: nothing is cleaned up or created and the router answers 500.
CmdNeedsNewAgreement(w, claRecord, deleteDefined) ==
    LET w1 == IF claRecord # NoCLA
              THEN LogWrite([w EXCEPT !.cla = deleteCLAByGitHubUserId(@,
                                          PRAuthor(w.th.ev.pr).id)],
                            "deleteCLAByGitHubUserId")
              ELSE w
    IN IF claRecord # NoCLA /\ ~deleteDefined THEN Finish(w, "cleanup_threw", 500)
       ELSE [w1 EXCEPT !.th.pc = "cmd_create"]

\* Variant: a pending record is always cleaned up and recreated, agreement found or not.
CmdCheck_AlwaysRecreates(w, commitEmails, profileEmail, fetchOk, f, deleteDefined) ==
    LET pr == w.th.ev.pr
        prAuthor == PRAuthor(pr)
        userEmail == ResolveUserEmail(commitEmails, profileEmail, prAuthor.id, prAuthor.login)
        claRecord == findCLAByGitHubUserId(w.cla, prAuthor.id)
        w0 == [LogEmailReads(w, commitEmails)
                  EXCEPT !.th.email = IF "email" \in observe THEN userEmail ELSE <<>>,
                         !.th.existingCLA = claRecord]
    IN CASE w.th.pc = "cmd_check" ->
              IF claRecord # NoCLA /\ claRecord.status = "pending"
              THEN [w0 EXCEPT !.th.uid = claRecord.concord_agreement_uid,
                              !.th.pc = "cmd_fetch"]
              ELSE IF claRecord # NoCLA /\ claRecord.status = "signed"
              THEN [w0 EXCEPT !.th.pc = "cmd_signed_reply"]
              ELSE IF claRecord = NoCLA THEN CmdNeedsNewAgreement(w0, claRecord, deleteDefined)
              ELSE Finish(w0, "nothing", 200)
         [] w.th.pc = "cmd_fetch" ->
              CmdNeedsNewAgreement(LogConcord(w, "fetch"), w.th.existingCLA,
                                   deleteDefined)
         [] w.th.pc = "cmd_resend" ->
              IF f = 1 THEN CmdNeedsNewAgreement(LogConcord(w, "resend"), w.th.existingCLA,
                                                deleteDefined)
              ELSE [LogConcord(w, "resend") EXCEPT !.th.pc = "cmd_resent_reply"]
         [] w.th.pc = "cmd_resent_reply" ->
              IF f = 1 THEN CmdNeedsNewAgreement(w, w.th.existingCLA, deleteDefined)
              ELSE Finish(createComment(w, pr, "resent", prAuthor.login), "resent", 200)
         [] w.th.pc = "cmd_signed_reply" ->
              IF f = 1 THEN Finish(w, "no_resend_needed", 500)
              ELSE Finish(createComment(w, pr, "already_signed", prAuthor.login),
                          "no_resend_needed", 200)

\* Look the record up; pending: fetch the agreement, resend the invitation, reply;
\* signed: reply; no record: recreate. Any throw inside the pending branch is taken as
\* "agreement deleted".
CmdCheck(w, commitEmails, profileEmail, fetchOk, f, deleteDefined) ==
    LET pr == w.th.ev.pr
        prAuthor == PRAuthor(pr)
        userEmail == ResolveUserEmail(commitEmails, profileEmail, prAuthor.id, prAuthor.login)
        claRecord == findCLAByGitHubUserId(w.cla, prAuthor.id)
        w0 == [LogEmailReads(w, commitEmails)
                  EXCEPT !.th.email = IF "email" \in observe THEN userEmail ELSE <<>>,
                         !.th.existingCLA = claRecord]
    IN CASE w.th.pc = "cmd_check" ->
              IF claRecord # NoCLA /\ claRecord.status = "pending"
              THEN [w0 EXCEPT !.th.uid = claRecord.concord_agreement_uid,
                              !.th.pc = "cmd_fetch"]
              ELSE IF claRecord # NoCLA /\ claRecord.status = "signed"
              THEN [w0 EXCEPT !.th.pc = "cmd_signed_reply"]
              ELSE IF claRecord = NoCLA THEN CmdNeedsNewAgreement(w0, claRecord, deleteDefined)
              ELSE Finish(w0, "nothing", 200)
         [] w.th.pc = "cmd_fetch" ->
              IF ~fetchOk THEN CmdNeedsNewAgreement(LogConcord(w, "fetch"), w.th.existingCLA,
                                   deleteDefined)
              ELSE [LogConcord(w, "fetch") EXCEPT !.th.pc = "cmd_resend"]
         [] w.th.pc = "cmd_resend" ->
              IF f = 1 THEN CmdNeedsNewAgreement(LogConcord(w, "resend"), w.th.existingCLA,
                                                deleteDefined)
              ELSE [LogConcord(w, "resend") EXCEPT !.th.pc = "cmd_resent_reply"]
         [] w.th.pc = "cmd_resent_reply" ->
              IF f = 1 THEN CmdNeedsNewAgreement(w, w.th.existingCLA, deleteDefined)
              ELSE Finish(createComment(w, pr, "resent", prAuthor.login), "resent", 200)
         [] w.th.pc = "cmd_signed_reply" ->
              IF f = 1 THEN Finish(w, "no_resend_needed", 500)
              ELSE Finish(createComment(w, pr, "already_signed", prAuthor.login),
                          "no_resend_needed", 200)

CmdCheckPoints == {"cmd_check", "cmd_fetch", "cmd_resend", "cmd_resent_reply",
                   "cmd_signed_reply"}

\* The catch block of the fresh-agreement branch: a reply naming the requester.
CmdCreateCaught(w, replyOk) ==
    IF replyOk THEN Finish(createComment(w, w.th.ev.pr, "failed", w.th.ev.requester), "recreate_failed", 200)
    ELSE Finish(w, "recreate_failed", 500)

\* Variant: the fresh agreement is recorded and announced, the commit status is not set.
CmdCreate_NoStatus(w, createOk, f, replyOk) ==
    LET pr == w.th.ev.pr
        prAuthor == PRAuthor(pr)
        w2 == LogWrite([w EXCEPT !.cla = createCLARecord(@,
                           [github_user_id |-> prAuthor.id,
                            concord_agreement_uid |-> w.th.uid,
                            status |-> "pending", signed_at |-> NullTs])], "createCLARecord")
        w3 == LogWrite([w2 EXCEPT !.prs = updatePRRecordAgreementUid(@, pr.repo, pr.number,
                                       prAuthor.id, w.th.uid)], "updatePRRecordAgreementUid")
    IN CASE w.th.pc = "cmd_create" ->
              IF ~createOk THEN [LogConcord(w, "create") EXCEPT !.th.pc = "cmd_failed_reply"]
              ELSE [createAgreementFromTemplate(w, pr) EXCEPT !.th.pc = "cmd_save"]
         [] w.th.pc = "cmd_save" -> [w3 EXCEPT !.th.pc = "cmd_getpr"]
         [] w.th.pc = "cmd_getpr" ->
              IF f = 1 THEN [w EXCEPT !.th.pc = "cmd_failed_reply"]
              ELSE [w EXCEPT !.th.headSha = w.head[pr], !.th.pc = "cmd_status"]
         [] w.th.pc = "cmd_status" ->
              IF f = 1 THEN [w EXCEPT !.th.pc = "cmd_failed_reply"]
              ELSE [w EXCEPT !.th.pc = "cmd_reply"]
         [] w.th.pc = "cmd_reply" ->
              IF f = 1 THEN [w EXCEPT !.th.pc = "cmd_failed_reply"]
              ELSE Finish(createComment(w, pr, "new_agreement", prAuthor.login),
                          "recreated", 200)
         [] w.th.pc = "cmd_failed_reply" -> CmdCreateCaught(w, replyOk)

\* Create the agreement, save the record and point the PR record at it, fetch the PR,
\* set the status, reply. A throw anywhere leads to the catch block.
CmdCreate(w, createOk, f, replyOk) ==
    LET pr == w.th.ev.pr
        prAuthor == PRAuthor(pr)
        w2 == LogWrite([w EXCEPT !.cla = createCLARecord(@,
                           [github_user_id |-> prAuthor.id,
                            concord_agreement_uid |-> w.th.uid,
                            status |-> "pending", signed_at |-> NullTs])], "createCLARecord")
        w3 == LogWrite([w2 EXCEPT !.prs = updatePRRecordAgreementUid(@, pr.repo, pr.number,
                                       prAuthor.id, w.th.uid)], "updatePRRecordAgreementUid")
    IN CASE w.th.pc = "cmd_create" ->
              IF ~createOk THEN [LogConcord(w, "create") EXCEPT !.th.pc = "cmd_failed_reply"]
              ELSE [createAgreementFromTemplate(w, pr) EXCEPT !.th.pc = "cmd_save"]
         [] w.th.pc = "cmd_save" -> [w3 EXCEPT !.th.pc = "cmd_getpr"]
         [] w.th.pc = "cmd_getpr" ->
              IF f = 1 THEN [w EXCEPT !.th.pc = "cmd_failed_reply"]
              ELSE [w EXCEPT !.th.headSha = w.head[pr], !.th.pc = "cmd_status"]
         [] w.th.pc = "cmd_status" ->
              IF f = 1 THEN [w EXCEPT !.th.pc = "cmd_failed_reply"]
              ELSE [createCLAStatus(w, pr, w.th.headSha, FALSE) EXCEPT !.th.pc = "cmd_reply"]
         [] w.th.pc = "cmd_reply" ->
              IF f = 1 THEN [w EXCEPT !.th.pc = "cmd_failed_reply"]
              ELSE Finish(createComment(w, pr, "new_agreement", prAuthor.login),
                          "recreated", 200)
         [] w.th.pc = "cmd_failed_reply" -> CmdCreateCaught(w, replyOk)

CmdCreatePoints == {"cmd_create", "cmd_save", "cmd_getpr", "cmd_status", "cmd_reply",
                    "cmd_failed_reply"}

\* A pull-request handler taken from where it waits to its end, nothing else running in
\* between and every platform call succeeding. v is the world w, worked out once.
RECURSIVE PRRun(_, _, _, _, _)
PRRun(w, commitEmails, profileEmail, searchOk, createOk) ==
    CHOOSE end \in
        {IF v.th.pc \in PRClassifyPoints
         THEN PRRun(PRClassify(v, 0), commitEmails, profileEmail, searchOk, createOk)
         ELSE IF v.th.pc \in PRResolvePoints
         THEN PRRun(PRResolve(v, commitEmails, profileEmail, searchOk, createOk, 0),
                    commitEmails, profileEmail, searchOk, createOk)
         ELSE IF v.th.pc \in PRCommentPoints
         THEN PRRun(PRComment(v, 0), commitEmails, profileEmail, searchOk, createOk)
         ELSE v : v \in {w}} : TRUE

\* The same for the handler of a /cla resend command; deleteDefined tells whether the
\* build has the cleanup function.
RECURSIVE CmdRun(_, _, _, _, _, _)
CmdRun(w, commitEmails, profileEmail, fetchOk, createOk, deleteDefined) ==
    CHOOSE end \in
        {IF v.th.pc \in CmdCheckPoints
         THEN CmdRun(CmdCheck(v, commitEmails, profileEmail, fetchOk, 0, deleteDefined),
                     commitEmails, profileEmail, fetchOk, createOk, deleteDefined)
         ELSE IF v.th.pc \in CmdCreatePoints
         THEN CmdRun(CmdCreate(v, createOk, 0, TRUE), commitEmails, profileEmail, fetchOk,
                     createOk, deleteDefined)
         ELSE v : v \in {w}} : TRUE

\* ------------------------------------------------------ GitHub webhook
Signatures == {"missing", "mismatch", "valid"}

\* Variant: a request without the header passes.
verifySignature_MissingPasses(signature) ==
    signature # "mismatch"

\* The x-hub-signature-256 header against the HMAC of the body.
verifySignature(signature) ==
    IF signature = "missing" THEN FALSE ELSE signature = "valid"

\* What the call a handler waits for does. 0: it succeeds; 1: it fails.
FailPoints == {0, 1}

GitHubEvents == {"pull_request", "issue_comment", "ping", "push"}

\* pull_request payloads: every action with an installation, one without
PRPayloads == {<<"opened", TRUE>>, <<"synchronize", TRUE>>, <<"reopened", TRUE>>,
               <<"closed", TRUE>>, <<"edited", TRUE>>, <<"labeled", TRUE>>,
               <<"opened", FALSE>>}

\* A thread can take a new request when it serves none.
Free(t) == threads[t].pc \in {"idle", "done"}

\* fresh: the store held no CLA record of the PR's author when the request came in
Summary(th) == [event |-> th.ev.event, action |-> th.ev.action, pr |-> th.ev.pr,
                sha |-> th.ev.sha, path |-> th.path, resp |-> th.resp,
                fresh |-> findCLAByGitHubUserId(th.snap.cla, PRAuthor(th.ev.pr).id) = NoCLA]

\* The frame of a request that starts now.
Begin(t, ev) ==
    [World(t) EXCEPT !.th = [IdleThread EXCEPT !.ev = ev,
                                !.snap = [cla |-> cla_records, prs |-> pr_records],
                                !.prev = IF "prev" \in observe THEN Summary(threads[t]) ELSE NoPrev]]

Received ==
    /\ nEvents < MaxEvents
    /\ nEvents' = nEvents + 1
    /\ UNCHANGED <<exemptedUsers, skipOrgMemberCheck, nFaults, observe, emailInput,
                   prCall>>

\* Something can still go wrong.
CanFail(went) == went \/ nFaults < MaxFaults

\* A handler goes on to its next await; went tells whether the call it waited for did
\* what it does when it succeeds.
Stepped(went) ==
    /\ nFaults' = nFaults + (IF went THEN 0 ELSE 1)
    /\ nFaults' <= MaxFaults
    /\ UNCHANGED <<nEvents, exemptedUsers, skipOrgMemberCheck, observe, emailInput,
                   prCall>>

\* router.post('/webhook') of the GitHub routes, signature missing or wrong
GitHubUnauthorized(t) ==
    /\ Free(t)
    /\ Received
    /\ \E signature \in Signatures, event \in GitHubEvents :
          /\ ~verifySignature(signature)
          /\ Commit(t, Finish(Begin(t, [NoEvent EXCEPT !.event = event,
                                                       !.action = IF event = "issue_comment"
                                                                  THEN "created" ELSE "opened",
                                                       !.installation = TRUE,
                                                       !.signature = signature]),
                              "rejected", 401))

\* a pull_request event on one of prs; a synchronize carries the new head commit
PullRequestWebhook(t, prs) ==
    /\ Free(t)
    /\ Received
    /\ \E signature \in Signatures, payload \in PRPayloads, pr \in prs,
          isMember \in (IF skipOrgMemberCheck /\ "member" \notin observe
                        THEN {FALSE} ELSE BOOLEAN),
          memberDefined \in (IF skipOrgMemberCheck THEN {TRUE} ELSE BOOLEAN) :
          /\ verifySignature(signature)
          /\ payload[1] = "synchronize" => head[pr] < MaxSha
          /\ LET sha == IF payload[1] = "synchronize" THEN head[pr] + 1 ELSE head[pr]
                 w == Begin(t, [NoEvent EXCEPT !.event = "pull_request",
                                               !.signature = signature,
                                               !.action = payload[1],
                                               !.installation = payload[2],
                                               !.pr = pr, !.sha = sha])
             IN Commit(t, PRBegin([w EXCEPT !.head[pr] = sha], isMember, memberDefined))

\* (action, made on a pull request, body) of the comments that arrive: every
\* combination where the frame keeps the body; elsewhere the command in both spellings
\* and one comment for each reason to ignore it
CommentCases ==
    IF "body" \in observe
    THEN {"created", "edited", "deleted"} \X BOOLEAN \X CommentBodies
    ELSE {<<"created", TRUE, ClaResend>>, <<"created", TRUE, PaddedResend>>,
          <<"created", TRUE, ClaResend \o <<" ", "n", "o", "w">> >>,
          <<"created", FALSE, ClaResend>>,
          <<"edited", TRUE, ClaResend>>, <<"deleted", TRUE, ClaResend>>}

\* an issue_comment event on one of prs
IssueCommentWebhook(t, prs) ==
    /\ Free(t)
    /\ Received
    /\ \E signature \in Signatures, case \in CommentCases, pr \in prs,
          hasInstallation \in BOOLEAN, requester \in {Alice, Bob} :
          /\ verifySignature(signature)
          /\ LET action == case[1]
                 isPullRequest == case[2]
                 body == case[3]
                 w == Begin(t, [NoEvent EXCEPT !.event = "issue_comment", !.action = action,
                                               !.signature = signature,
                                               !.installation = hasInstallation,
                                               !.pr = pr, !.sha = head[pr],
                                               !.requester = requester,
                                               !.body = IF "body" \in observe THEN body
                                                        ELSE <<>>,
                                               !.isPullRequest =
                                                   isPullRequest /\ "body" \in observe])
             IN Commit(t, CmdBegin(w, isPullRequest, body))

\* ping and event types without a handler
GitHubOtherWebhook(t) ==
    /\ Free(t)
    /\ Received
    /\ \E signature \in Signatures, event \in {"ping", "push"} :
          /\ verifySignature(signature)
          /\ Commit(t, Finish(Begin(t, [NoEvent EXCEPT !.event = event,
                                                       !.signature = signature]),
                              "unhandled", 200))

SignatureEvents == {"AGREEMENT_EXECUTED", "AGREEMENT_NEW_SIGNATURE"}

ConcordEventNames == SignatureEvents \cup {"AGREEMENT_CANCELLED", "AGREEMENT_MOVE_TO_SIGNING",
                                           "AGREEMENT_EXPIRED"}

\* agreement uids an event can carry: created by the bot, known to Concord only (90),
\* unknown to both (99)
AgreementRefs == (1..Len(concord)) \cup {90, 99}

\* (uid, signedAgreementUid) of an event: no signed uid, or an unknown uid renamed
RefPairs(name) ==
    {<<r, NullId>> : r \in AgreementRefs}
        \cup (IF name \in SignatureEvents
              THEN {<<99, s>> : s \in AgreementRefs \ {99}}
              ELSE {})

\* router.post('/webhook') of the Concord routes
ConcordWebhook(t) ==
    /\ Free(t)
    /\ Received
    /\ \E name \in ConcordEventNames :
          \E refs \in RefPairs(name) :
              Commit(t, ConcordRoute(Begin(t, [NoEvent EXCEPT !.event = name,
                                                              !.ref = refs[1],
                                                              !.sref = refs[2]])))

\* The handler of thread t goes from the await it is at to its next one. Each input is
\* drawn only where the awaited call has it.
PRClassifyStep(t) ==
    /\ threads[t].pc \in PRClassifyPoints
    /\ \E f \in (IF threads[t].pc = "classify" THEN {0} ELSE FailPoints) :
          /\ CanFail(f = 0)
          /\ Stepped(f = 0)
          /\ Commit(t, PRClassify(World(t), f))

\* The calls of the catch block of a failed creation belong to a request in which a
\* call went wrong already: they are not counted again.
PRResolveStep(t) ==
    LET pc == threads[t].pc
    IN /\ pc \in PRResolvePoints
       /\ \E emails \in (IF pc = "resolve" THEN EmailCases ELSE {<<<<>>, <<>>>>}),
             searchOk \in (IF pc = "resolve" THEN BOOLEAN ELSE {TRUE}),
             createOk \in (IF pc = "create" THEN BOOLEAN ELSE {TRUE}),
             f \in (IF pc \in {"resolve", "create", "save"} THEN {0} ELSE FailPoints) :
             LET w == PRResolve(World(t), emails[1], emails[2], searchOk, createOk, f)
                 went == \/ searchOk /\ createOk /\ f = 0
                         \/ w = PRResolve(World(t), emails[1], emails[2], TRUE, TRUE, 0)
                         \/ pc \in {"fail_label", "fail_status", "fail_comment"}
             IN CanFail(went) /\ Stepped(went) /\ Commit(t, w)

PRCommentStep(t) ==
    /\ threads[t].pc \in PRCommentPoints
    /\ \E f \in (IF threads[t].pc = "comment_id" THEN {0} ELSE FailPoints) :
          /\ CanFail(f = 0)
          /\ Stepped(f = 0)
          /\ Commit(t, PRComment(World(t), f))

\* fetchOk: whether Concord still has the agreement of the pending record;
\* deleteDefined: whether the build has the cleanup function the pending branch falls
\* through to
CmdCheckStep(t) ==
    LET pc == threads[t].pc
    IN /\ pc \in CmdCheckPoints
       /\ \E emails \in (IF pc = "cmd_check" THEN EmailCases ELSE {<<<<>>, <<>>>>}),
             fetchOk \in (IF pc = "cmd_fetch" THEN BOOLEAN ELSE {TRUE}),
             f \in (IF pc \in {"cmd_check", "cmd_fetch"} THEN {0} ELSE FailPoints),
             deleteDefined \in (IF pc \in {"cmd_fetch", "cmd_resend", "cmd_resent_reply"}
                                THEN BOOLEAN ELSE {TRUE}) :
             /\ CanFail(f = 0)
             /\ Stepped(f = 0)
             /\ Commit(t, CmdCheck(World(t), emails[1], emails[2], fetchOk, f,
                                   deleteDefined))

\* The reply of the catch block belongs to a request in which a call went wrong
\* already: it is not counted again.
CmdCreateStep(t) ==
    LET pc == threads[t].pc
    IN /\ pc \in CmdCreatePoints
       /\ \E createOk \in (IF pc = "cmd_create" THEN BOOLEAN ELSE {TRUE}),
             f \in (IF pc \in {"cmd_getpr", "cmd_status", "cmd_reply"}
                    THEN FailPoints ELSE {0}),
             replyOk \in (IF pc = "cmd_failed_reply" THEN BOOLEAN ELSE {TRUE}) :
             LET went == (createOk /\ f = 0) \/ pc = "cmd_failed_reply"
             IN /\ CanFail(went)
                /\ Stepped(went)
                /\ Commit(t, CmdCreate(World(t), createOk, f, replyOk))

\* Of the outcomes of an item, those are rejected calls. An app that is not installed on
\* the repository is an answer of GitHub, and the label call throws on every item where
\* the build has no removeCLAPendingLabel.
FanOutTurn(t) ==
    /\ threads[t].pc \in FanOutPoints
    /\ \E outcome \in FanOutOutcomesAt(threads[t].pc) :
          LET went == outcome \notin {"installations_throw", "fetch_fails", "comment_fails",
                                      "status_throws"}
          IN /\ CanFail(went)
             /\ Stepped(went)
             /\ Commit(t, FanOutStep(World(t), outcome))

\* The process is stopped and started again, with the same CLA_EXEMPTED_USERS or with
\* another. shutdown() closes the database and exits at once: the requests being served
\* are dropped where they wait and never answered. The database file and what GitHub
\* and the agreement service hold stay.
Restart ==
    /\ nEvents < MaxEvents
    /\ nEvents' = nEvents + 1
    /\ \E envUsers \in {EnvBobEve, EnvAliceBob} :
          exemptedUsers' = parseExemptedUsers(envUsers)
    /\ threads' = [t \in DOMAIN threads |-> IdleThread]
    /\ UNCHANGED <<cla_records, pr_records, concord, head, status, labels, comments,
                   skipOrgMemberCheck, nFaults, observe, emailInput, prCall>>

ThreadIds == {1, 2}

InitStore(envUsers, skip, obs) ==
    /\ cla_records = <<>>
    /\ pr_records = <<>>
    /\ concord = <<>>
    /\ head = [pr \in PRs |-> 1]
    /\ status = [pr \in PRs |-> [sha \in Shas |-> "none"]]
    /\ labels = [pr \in PRs |-> {}]
    /\ comments = <<>>
    /\ threads = [t \in ThreadIds |-> IdleThread]
    /\ exemptedUsers = parseExemptedUsers(envUsers)
    /\ skipOrgMemberCheck = skip
    /\ nEvents = 0
    /\ nFaults = 0
    /\ observe = obs

InitWith(envUsers, skip, obs) ==
    /\ InitStore(envUsers, skip, obs)
    /\ emailInput = NoEmailInput
    /\ prCall = NoPRCall

\* Alice is not on the exemption list and the organization check is switched off.
Init == InitWith(EnvBobEve, TRUE, {"calls"})

\* Webhooks of GitHub and of the agreement service about one pull request, one request
\* at a time.
Next ==
    /\ Free(2)
    /\ \/ GitHubUnauthorized(1)
       \/ PullRequestWebhook(1, {PRA})
       \/ GitHubOtherWebhook(1)
       \/ ConcordWebhook(1)
       \/ PRClassifyStep(1)
       \/ PRResolveStep(1)
       \/ PRCommentStep(1)
       \/ FanOutTurn(1)

Spec == Init /\ [][Next]_vars

\* The two pull requests of one contributor and the agreement webhooks, one request at
\* a time, from a state in which the first, PRA, has been opened and its handler has run
\* to its end with every platform call succeeding. Either the contributor was unknown
\* and the agreement was created: the record is pending, PRA is tracked, labelled and
\* commented on, its head is pending. Or the creation failed: nothing is stored, PRA is
\* labelled pending and carries the manual comment. Or the agreement service held an
\* agreement for a commit e-mail: the record is signed and the head of PRA shows success.
OpenedEvent(pr) ==
    [NoEvent EXCEPT !.event = "pull_request", !.signature = "valid", !.action = "opened",
                    !.installation = TRUE, !.pr = pr, !.sha = 1]

\* The world a first request finds: empty tables, nothing on GitHub or in the agreement
\* service.
FreshWorld(ev) ==
    [cla |-> <<>>, prs |-> <<>>, concord |-> <<>>,
     head |-> [pr \in PRs |-> 1],
     status |-> [pr \in PRs |-> [sha \in Shas |-> "none"]],
     labels |-> [pr \in PRs |-> {}], comments |-> <<>>,
     th |-> [IdleThread EXCEPT !.ev = ev]]

\* The world after PRA was opened by a contributor who got past the entry checks, being
\* neither listed nor asked about in the organization, every platform call succeeding.
AfterFirstOpened(commitEmails, createOk) ==
    PRRun([FreshWorld(OpenedEvent(PRA)) EXCEPT !.th.pc = "classify"],
          commitEmails, <<>>, TRUE, createOk)

InitFan ==
    /\ exemptedUsers = parseExemptedUsers(EnvBobEve)
    /\ skipOrgMemberCheck = TRUE
    /\ observe = {"calls"}
    /\ nEvents = 1
    /\ nFaults = 0
    /\ emailInput = NoEmailInput
    /\ prCall = NoPRCall
    /\ \E commitEmails \in {<<AliceMail>>, <<AliceRelayMail, AliceCorpMail>>},
          createOk \in BOOLEAN :
       LET w == AfterFirstOpened(commitEmails, createOk)
       IN /\ cla_records = w.cla
          /\ pr_records = w.prs
          /\ concord = w.concord
          /\ head = w.head
          /\ status = w.status
          /\ labels = w.labels
          /\ comments = w.comments
          /\ threads = [t \in ThreadIds |-> IF t = 1 THEN w.th ELSE IdleThread]

NextFan ==
    /\ Free(2)
    /\ \/ PullRequestWebhook(1, PRs)
       \/ ConcordWebhook(1)
       \/ PRClassifyStep(1)
       \/ PRResolveStep(1)
       \/ PRCommentStep(1)
       \/ FanOutTurn(1)

SpecFan == InitFan /\ [][NextFan]_vars

\* Pull-request webhooks for one pull request, one request at a time, the frame keeping
\* the previous request.
InitPulls == InitWith(EnvBobEve, TRUE, {"calls", "prev"})

NextPulls ==
    /\ Free(2)
    /\ \/ PullRequestWebhook(1, {PRA})
       \/ PRClassifyStep(1)
       \/ PRResolveStep(1)
       \/ PRCommentStep(1)

SpecPulls == InitPulls /\ [][NextPulls]_vars

\* Pull-request webhooks for one pull request that get past the entry checks; two
\* requests may overlap at their awaits. A request is served as thread 2 only while
\* thread 1 is busy; MaxOverlapping requests are received. The frames keep which store
\* writes, agreement-service calls and comments a request made.
InitConc == InitWith(EnvBobEve, TRUE, {})

NextConc ==
    \/ nEvents < MaxOverlapping /\ PullRequestWebhook(1, {PRA}) /\ ~Free(1)'
    \/ nEvents < MaxOverlapping /\ ~Free(1) /\ PullRequestWebhook(2, {PRA}) /\ ~Free(2)'
    \/ \E t \in ThreadIds :
          \/ PRClassifyStep(t)
          \/ PRResolveStep(t)
          \/ PRCommentStep(t)

SpecConc == InitConc /\ [][NextConc]_vars

\* One pull request of a contributor who was put on the exemption list after the bot
\* had met them: the process was restarted with the new list when the store was empty,
\* or held the pending record and the PR record of PRA, or the record signed elsewhere.
\* Agreement webhooks, further pull-request events and restarts follow; the events are
\* counted from that restart.
InitListed ==
    /\ exemptedUsers = parseExemptedUsers(EnvAliceBob)
    /\ skipOrgMemberCheck = TRUE
    /\ observe = {"calls"}
    /\ nEvents = 0
    /\ nFaults = 0
    /\ emailInput = NoEmailInput
    /\ prCall = NoPRCall
    /\ threads = [t \in ThreadIds |-> IdleThread]
    /\ \E w \in {FreshWorld(NoEvent), AfterFirstOpened(<<AliceMail>>, TRUE),
                  AfterFirstOpened(<<AliceRelayMail, AliceCorpMail>>, TRUE)} :
          /\ cla_records = w.cla
          /\ pr_records = w.prs
          /\ concord = w.concord
          /\ head = w.head
          /\ status = w.status
          /\ labels = w.labels
          /\ comments = w.comments

NextListed ==
    /\ Free(2)
    /\ \/ Restart
       \/ PullRequestWebhook(1, {PRA})
       \/ ConcordWebhook(1)
       \/ PRClassifyStep(1)
       \/ PRResolveStep(1)
       \/ PRCommentStep(1)
       \/ FanOutTurn(1)

SpecListed == InitListed /\ [][NextListed]_vars

\* One pull request, the organization check on or off, restarts that change the exemption list.
InitExempt == \E skip \in BOOLEAN : InitWith(EnvBobEve, skip, {"calls"})

NextExempt ==
    /\ Free(2)
    /\ \/ Restart
       \/ PullRequestWebhook(1, {PRA})
       \/ ConcordWebhook(1)
       \/ PRClassifyStep(1)
       \/ PRResolveStep(1)
       \/ PRCommentStep(1)
       \/ FanOutTurn(1)

SpecExempt == InitExempt /\ [][NextExempt]_vars

\* Pull-request webhooks for one pull request under each configuration of the exemption
\* list and the skip flag; whether the author is an organization member is kept in the
\* frame.
InitMember ==
    \E envUsers \in {EnvBobEve, EnvAliceBob}, skip \in BOOLEAN :
       InitWith(envUsers, skip, {"calls", "member"})

NextMember ==
    /\ Free(2)
    /\ \/ PullRequestWebhook(1, {PRA})
       \/ PRClassifyStep(1)
       \/ PRResolveStep(1)
       \/ PRCommentStep(1)

SpecMember == InitMember /\ [][NextMember]_vars

\* Pull-request webhooks, /cla resend comments and agreement webhooks for one pull
\* request, one request at a time.
NextCmd ==
    /\ Free(2)
    /\ \/ PullRequestWebhook(1, {PRA})
       \/ IssueCommentWebhook(1, {PRA})
       \/ ConcordWebhook(1)
       \/ PRClassifyStep(1)
       \/ PRResolveStep(1)
       \/ PRCommentStep(1)
       \/ CmdCheckStep(1)
       \/ CmdCreateStep(1)
       \/ FanOutTurn(1)

SpecCmd == Init /\ [][NextCmd]_vars

\* Every kind of authenticated request the GitHub webhook gets, for one pull request,
\* one request at a time. A run starts on the empty store with the organization check
\* skipped, or, two events later, on the store that the opened event and the
\* cancellation of its agreement left: record cancelled, PRA tracked and pending; there
\* the organization check is skipped or not.
CancelledEvent(uid) == [NoEvent EXCEPT !.event = "AGREEMENT_CANCELLED", !.ref = uid]

AfterCancelled ==
    LET w == AfterFirstOpened(<<AliceMail>>, TRUE)
    IN handleAgreementCancelled([w EXCEPT !.th = [IdleThread EXCEPT !.ev = CancelledEvent(1)]])

InitHooks ==
    /\ exemptedUsers = parseExemptedUsers(EnvBobEve)
    /\ observe = {"calls"}
    /\ nFaults = 0
    /\ emailInput = NoEmailInput
    /\ prCall = NoPRCall
    /\ threads = [t \in ThreadIds |-> IdleThread]
    /\ \E start \in {<<FreshWorld(NoEvent), 0, TRUE>>, <<AfterCancelled, 2, TRUE>>,
                      <<AfterCancelled, 2, FALSE>>} :
          LET w == start[1]
          IN /\ nEvents = start[2]
             /\ skipOrgMemberCheck = start[3]
             /\ cla_records = w.cla
             /\ pr_records = w.prs
             /\ concord = w.concord
             /\ head = w.head
             /\ status = w.status
             /\ labels = w.labels
             /\ comments = w.comments

NextHooks ==
    /\ Free(2)
    /\ \/ PullRequestWebhook(1, {PRA})
       \/ IssueCommentWebhook(1, {PRA})
       \/ GitHubOtherWebhook(1)
       \/ PRClassifyStep(1)
       \/ PRResolveStep(1)
       \/ PRCommentStep(1)
       \/ CmdCheckStep(1)
       \/ CmdCreateStep(1)

SpecHooks == InitHooks /\ [][NextHooks]_vars

\* Pull-request webhooks served as thread 1 and agreement webhooks that arrive while a
\* pull-request handler is at one of its awaits, served as thread 2.
NextRace ==
    \/ PullRequestWebhook(1, PRs)
    \/ PRClassifyStep(1)
    \/ PRResolveStep(1)
    \/ PRCommentStep(1)
    \/ ~Free(1) /\ ConcordWebhook(2)
    \/ FanOutTurn(2)

SpecRace == Init /\ [][NextRace]_vars

\* Issue comments of every kind for one pull request, the comment's body and whether
\* it was made on a pull request kept in the frame.
InitComment == InitWith(EnvBobEve, TRUE, {"calls", "body"})

NextComment ==
    /\ Free(2)
    /\ \/ IssueCommentWebhook(1, {PRA})
       \/ CmdCheckStep(1)
       \/ CmdCreateStep(1)

SpecComment == InitComment /\ [][NextComment]_vars

\* The e-mail resolution on its own: any input, one application.
InitEmail ==
    /\ InitStore(EnvBobEve, TRUE, {"calls", "email"})
    /\ emailInput \in EmailInputs
    /\ prCall = NoPRCall

ResolveEmailStep ==
    /\ threads[1].pc = "idle"
    /\ threads' = [threads EXCEPT ![1].pc = "done",
                                  ![1].email = ResolveUserEmail(emailInput.commitEmails,
                                                                emailInput.profileEmail,
                                                                emailInput.user.id,
                                                                emailInput.user.login)]
    /\ UNCHANGED <<cla_records, pr_records, concord, head, status, labels, comments,
                   exemptedUsers, skipOrgMemberCheck, nEvents, nFaults, observe, emailInput,
                   prCall>>

NextEmail == ResolveEmailStep

SpecEmail == InitEmail /\ [][NextEmail]_vars

\* The PR-record upsert on its own: a table built by createPRRecord calls alone, each
\* call with any record of the two pull requests, comment id and agreement uid null
\* or not.
PRRecordInputs ==
    {[repo_full_name |-> pr.repo, pr_number |-> pr.number,
      github_user_id |-> PRAuthor(pr).id, comment_id |-> c, concord_agreement_uid |-> u] :
        pr \in PRs, c \in NullId..MaxRowRef, u \in NullId..MaxRowRef}

CreatePRRecordStep ==
    /\ nEvents < MaxEvents
    /\ nEvents' = nEvents + 1
    /\ \E record \in PRRecordInputs :
          /\ pr_records' = createPRRecord(pr_records, record)
          /\ prCall' = [before |-> pr_records, record |-> record]
    /\ UNCHANGED <<cla_records, concord, head, status, labels, comments, threads,
                   exemptedUsers, skipOrgMemberCheck, nFaults, observe, emailInput>>

NextRows == CreatePRRecordStep

SpecRows == Init /\ [][NextRows]_vars

\* ------------------------------------------------------------ properties
\* The request thread 1 has finished serving.
Done == threads[1].pc = "done"

IsSignatureEvent(ev) == ev.event \in SignatureEvents

\* A pull-request event the handler acts on.
IsHandledPR(ev) ==
    /\ ev.event = "pull_request" /\ ev.signature = "valid"
    /\ ev.action \in HandledActions /\ ev.installation

\* GitHub took every label request of the request served.
LabelsTaken(th) == \A i \in 1..Len(th.log.labels) : th.log.labels[i].ok

Range(seq) == {seq[i] : i \in 1..Len(seq)}

Count(seq, Test(_)) == Cardinality({i \in 1..Len(seq) : Test(seq[i])})

\* C3: fan-out completeness. When a signature event has marked a record signed, the
\* loop has gone through every PR record of the contributor, in order, whatever
\* happened on each; every PR whose own calls succeeded shows success on its current
\* head; the webhook is answered 200.
C3_FanOutComplete ==
    LET th == threads[1]
        rows == findPRRecordsByGitHubUserId(th.snap.prs, PRAuthor(PRA).id)
    IN (Done /\ IsSignatureEvent(th.ev) /\ th.path \in {"executed", "new_signature"})
       => /\ th.resp = 200
          /\ Len(th.log.items) = Len(rows)
          /\ \A i \in 1..Len(rows) :
                /\ th.log.items[i].pr = PRRecordKey(rows[i])
                /\ th.log.items[i].outcome = "ok"
                   => status[PRRecordKey(rows[i])][head[PRRecordKey(rows[i])]] = "success"

\* An executed event resolved a pending record with two PR records; the update of
\* the first threw, the second went through.
C3_Witness ==
    LET th == threads[1]
    IN /\ Done /\ th.ev.event = "AGREEMENT_EXECUTED" /\ th.path = "executed"
       /\ findCLAByAgreementUid(th.snap.cla, th.ev.ref).status = "pending"
       /\ Len(th.log.items) = 2
       /\ th.log.items[1].outcome = "status_throws"
       /\ th.log.items[2].outcome = "ok"
       /\ status[th.log.items[2].pr][head[th.log.items[2].pr]] = "success"

\* C8: already signed. A handled pull-request event of a non-exempt contributor whose
\* record is signed ends on the signed path: when the calls go through, one success
\* status on the event's sha and the two label updates (remove pending, add signed);
\* in every case no search or creation in Concord, no comment, no comment edit, no
\* store write, the two tables as they were.
C8_SignedOnlyMarksSuccess ==
    LET th == threads[1]
        pr == th.ev.pr
        rec == findCLAByGitHubUserId(th.snap.cla, PRAuthor(pr).id)
    IN (Done /\ IsHandledPR(th.ev) /\ th.exempt = "no" /\ rec # NoCLA /\ rec.status = "signed")
       => /\ th.path = "signed"
          /\ th.log.concord = <<>> /\ th.log.comments = <<>> /\ th.log.edits = <<>>
          /\ th.log.writes = <<>> /\ th.log.items = <<>>
          /\ cla_records = th.snap.cla /\ pr_records = th.snap.prs
          /\ (th.resp = 200 /\ LabelsTaken(th))
             => /\ th.log.statuses = <<[pr |-> pr, sha |-> th.ev.sha, state |-> "success"]>>
                /\ th.log.labels =
                      <<[pr |-> pr, op |-> "remove", name |-> "cla:pending", ok |-> TRUE],
                        [pr |-> pr, op |-> "add", name |-> "cla:signed", ok |-> TRUE]>>
                /\ status[pr][th.ev.sha] = "success"
                /\ "cla:signed" \in labels[pr] /\ "cla:pending" \notin labels[pr]
          /\ th.resp # 200 => th.log.statuses = <<>> /\ th.log.labels = <<>>

\* The signed contributor's event is on a PR of another repository that has no PR record.
C8_Witness ==
    LET th == threads[1]
        rec == findCLAByGitHubUserId(th.snap.cla, PRAuthor(th.ev.pr).id)
    IN /\ Done /\ IsHandledPR(th.ev) /\ th.exempt = "no"
       /\ rec # NoCLA /\ rec.status = "signed"
       /\ th.ev.pr = PRB /\ th.resp = 200 /\ LabelsTaken(th)
       /\ findPRRecord(th.snap.prs, PRB.repo, PRB.number, PRAuthor(PRB).id) = NoPR
       /\ findPRRecord(th.snap.prs, PRA.repo, PRA.number, PRAuthor(PRA).id) # NoPR

\* C9: new agreement. A handled pull-request event of a non-exempt contributor without
\* record, nothing valid found in Concord, creation and every later call succeeding:
\* one search and one creation in Concord; one CLA record of the contributor, pending,
\* with the new agreement's uid; one PR record of the triple with that uid and the id
\* of the pending comment posted on this PR; the pending label; pending status on the
\* event's sha.
C9_NewAgreement ==
    LET th == threads[1]
        pr == th.ev.pr
        userId == PRAuthor(pr).id
        claRow == findCLAByGitHubUserId(cla_records, userId)
        prRow == findPRRecord(pr_records, pr.repo, pr.number, userId)
    IN (Done /\ IsHandledPR(th.ev) /\ th.exempt = "no" /\ th.path = "created" /\ th.resp = 200
        /\ LabelsTaken(th) /\ findCLAByGitHubUserId(th.snap.cla, userId) = NoCLA)
       => /\ th.log.concord = <<"search", "create">>
          /\ th.uid = Len(concord) /\ concord[th.uid] = pr
          /\ Count(cla_records, LAMBDA r : r.github_user_id = userId) = 1
          /\ claRow = [github_user_id |-> userId, concord_agreement_uid |-> th.uid,
                       status |-> "pending", signed_at |-> NullTs]
          /\ Count(pr_records, LAMBDA r : SameTriple(r, pr.repo, pr.number, userId)) = 1
          /\ prRow.concord_agreement_uid = th.uid
          /\ th.log.comments = <<[pr |-> pr, body |-> "pending", mention |-> PRAuthor(pr).login]>>
          /\ prRow.comment_id \in 1..Len(comments)
          /\ comments[prRow.comment_id] = th.log.comments[1]
          /\ "cla:pending" \in labels[pr]
          /\ status[pr][th.ev.sha] = "pending"
          /\ th.log.statuses = <<[pr |-> pr, sha |-> th.ev.sha, state |-> "pending"]>>

\* An opened event of a contributor without record went through search, creation,
\* records, label, comment and status.
C9_Witness ==
    LET th == threads[1]
    IN /\ Done /\ IsHandledPR(th.ev) /\ th.ev.action = "opened" /\ th.exempt = "no"
       /\ th.path = "created" /\ th.resp = 200 /\ LabelsTaken(th)
       /\ findCLAByGitHubUserId(th.snap.cla, PRAuthor(th.ev.pr).id) = NoCLA
       /\ th.snap.prs = <<>>
       /\ Len(pr_records) = 1 /\ Len(cla_records) = 1

\* The record a signature event is about, as the specification resolves it: by the
\* agreement uid, else by the signed agreement uid when there is a different one.
ResolvedRecord(cla, ev) ==
    LET first == findCLAByAgreementUid(cla, ev.ref)
    IN IF first = NoCLA /\ ev.sref # NullId /\ ev.sref # ev.ref
       THEN findCLAByAgreementUid(cla, ev.sref)
       ELSE first

\* C4: idempotence of completion. An AGREEMENT_EXECUTED or AGREEMENT_NEW_SIGNATURE
\* event whose record is already signed writes nothing to the store, goes through no PR
\* record and makes no platform call.
C4_CompletionIdempotent ==
    LET th == threads[1]
        rec == ResolvedRecord(th.snap.cla, th.ev)
    IN (Done /\ IsSignatureEvent(th.ev) /\ rec # NoCLA /\ rec.status = "signed")
       => /\ th.log = EmptyLog
          /\ cla_records = th.snap.cla /\ pr_records = th.snap.prs

\* C5: resolution by either uid. An AGREEMENT_EXECUTED or AGREEMENT_NEW_SIGNATURE event
\* whose agreement uid matches no record and whose signed agreement uid matches one
\* leaves that record signed.
C5_ResolvedByEitherRef ==
    LET th == threads[1]
    IN (Done /\ IsSignatureEvent(th.ev)
        /\ findCLAByAgreementUid(th.snap.cla, th.ev.ref) = NoCLA
        /\ th.ev.sref # NullId /\ th.ev.sref # th.ev.ref
        /\ findCLAByAgreementUid(th.snap.cla, th.ev.sref) # NoCLA)
       => findCLAByAgreementUid(cla_records, th.ev.sref).status = "signed"

\* C6: inverse reconciliation. After a signature event has marked the contributor's
\* record signed and every platform call of its fan-out succeeded, no pull request of
\* the contributor shows a pending status on its current head.
C6_NoPRLeftPending ==
    LET th == threads[1]
    IN (Done /\ IsSignatureEvent(th.ev) /\ th.path \in {"executed", "new_signature"}
        /\ \A i \in 1..Len(th.log.items) : th.log.items[i].outcome = "ok")
       => \A pr \in PRs : status[pr][head[pr]] # "pending"

\* The next pull_request event on pr, served from the present state up to the branch
\* the handler takes, or to its end when the entry checks end it.
LaterPREvent(pr, isMember, memberDefined) ==
    LET ev == [NoEvent EXCEPT !.event = "pull_request", !.action = "synchronize",
                              !.installation = TRUE, !.pr = pr, !.sha = head[pr]]
        w == PRBegin(Begin(1, ev), isMember, memberDefined)
    IN IF w.th.pc = "classify" THEN PRClassify(w, 0) ELSE w

\* C10: failed creation. When the creation of the agreement fails and the platform calls
\* succeed, the PR has the pending label, a pending status on the event's sha and the
\* manual-follow-up comment; whether or not they succeed, the two tables are as they
\* were before the event, and the next event on the same PR, when it gets past the
\* exemption tests, is not taken as already pending and tracked: it goes on to the
\* search, and to a creation when nothing valid is found.
C10_CreateFailedKeepsNothing ==
    LET th == threads[1]
        pr == th.ev.pr
    IN (Done /\ IsHandledPR(th.ev) /\ th.path = "create_failed")
       => /\ cla_records = th.snap.cla /\ pr_records = th.snap.prs
          /\ th.log.writes = <<>>
          /\ th.log.concord = <<"search", "create">>
          /\ th.uid = NullId
          /\ (th.resp = 200 /\ LabelsTaken(th))
             => /\ "cla:pending" \in labels[pr]
                /\ status[pr][th.ev.sha] = "pending"
                /\ th.log.comments = <<[pr |-> pr, body |-> "manual",
                                        mention |-> PRAuthor(pr).login]>>
                /\ comments[Len(comments)] = th.log.comments[1]
          /\ \A isMember \in BOOLEAN, memberDefined \in BOOLEAN :
                LET later == LaterPREvent(pr, isMember, memberDefined)
                    retry == PRRun(later, <<AliceMail>>, <<>>, TRUE, TRUE)
                IN (skipOrgMemberCheck \/ (memberDefined /\ ~isMember))
                   => /\ later.th.pc = "resolve"
                      /\ retry.th.log.concord = <<"search", "create">>
                      /\ retry.th.path = "created"

\* A creation failed on a PR of a contributor who has a pending record from another PR.
C10_Witness ==
    LET th == threads[1]
    IN /\ Done /\ IsHandledPR(th.ev) /\ th.path = "create_failed"
       /\ th.resp = 200 /\ LabelsTaken(th)
       /\ findCLAByGitHubUserId(th.snap.cla, PRAuthor(th.ev.pr).id).status = "pending"
       /\ Len(th.snap.prs) = 1

\* C1: the same opened event twice. When an opened event of a contributor without
\* record has led to the creation of an agreement and the same event is handled again
\* right after, the second handling is the one of a pending, tracked PR: no call to
\* Concord, no comment, no store write; the store holds one CLA record of the contributor
\* and one PR record of the triple, Concord one agreement, the PR at most one pending
\* comment.
C1_SameOpenedTwice ==
    LET th == threads[1]
        pr == th.ev.pr
        userId == PRAuthor(pr).id
    IN (Done /\ IsHandledPR(th.ev) /\ th.ev.action = "opened"
        /\ th.prev.event = "pull_request" /\ th.prev.action = "opened"
        /\ th.prev.pr = pr /\ th.prev.sha = th.ev.sha
        /\ th.prev.fresh /\ th.prev.path = "created")
       => /\ th.path = "pending_tracked"
          /\ th.log.concord = <<>> /\ th.log.comments = <<>> /\ th.log.writes = <<>>
          /\ Count(cla_records, LAMBDA r : r.github_user_id = userId) = 1
          /\ Count(pr_records, LAMBDA r : SameTriple(r, pr.repo, pr.number, userId)) = 1
          /\ Count(concord, LAMBDA p : p = pr) = 1
          /\ Count(comments, LAMBDA c : c.pr = pr /\ c.body = "pending") <= 1

\* Both handlings answered 200; the first posted the pending comment.
C1_Witness ==
    LET th == threads[1]
    IN /\ Done /\ IsHandledPR(th.ev) /\ th.ev.action = "opened"
       /\ th.prev.event = "pull_request" /\ th.prev.action = "opened"
       /\ th.prev.pr = th.ev.pr /\ th.prev.sha = th.ev.sha
       /\ th.prev.fresh /\ th.prev.path = "created" /\ th.prev.resp = 200
       /\ th.resp = 200
       /\ Count(comments, LAMBDA c : c.pr = th.ev.pr /\ c.body = "pending") = 1

\* C2: overlapping handlers. Whatever the interleaving of the pull_request handlers of
\* one PR, at most one agreement is created for the PR and at most one pending comment
\* is posted on it.
C2_PendingEffectsOnce ==
    \A pr \in PRs :
        /\ Count(concord, LAMBDA p : p = pr) <= 1
        /\ Count(comments, LAMBDA c : c.pr = pr /\ c.body = "pending") <= 1

\* C7: exempted by the list. A handled pull_request event of a contributor whose login
\* is on the exemption list in another letter case ends exempt, whatever the store
\* holds: no call to Concord, no comment, no store write, and, when the calls go
\* through, success on the event's sha and the exempt label.
C7_ListedAlwaysExempt ==
    LET th == threads[1]
        pr == th.ev.pr
    IN (Done /\ IsHandledPR(th.ev) /\ PRAuthor(pr).login = Alice
        /\ <<"a", "l", "i", "c", "e">> \in exemptedUsers)
       => /\ th.path = "exempt"
          /\ th.log.concord = <<>> /\ th.log.comments = <<>> /\ th.log.writes = <<>>
          /\ cla_records = th.snap.cla /\ pr_records = th.snap.prs
          /\ (th.resp = 200 /\ LabelsTaken(th))
             => /\ status[pr][th.ev.sha] = "success"
                /\ "cla:exempt" \in labels[pr]
                /\ th.log.statuses = <<[pr |-> pr, sha |-> th.ev.sha, state |-> "success"]>>

\* The listed contributor has a cancelled record and a PR record of this PR.
C7_Witness ==
    LET th == threads[1]
        pr == th.ev.pr
        rec == findCLAByGitHubUserId(th.snap.cla, PRAuthor(pr).id)
    IN /\ Done /\ IsHandledPR(th.ev) /\ PRAuthor(pr).login = Alice
       /\ <<"a", "l", "i", "c", "e">> \in exemptedUsers
       /\ th.resp = 200 /\ LabelsTaken(th)
       /\ rec # NoCLA /\ rec.status = "cancelled"
       /\ findPRRecord(th.snap.prs, pr.repo, pr.number, PRAuthor(pr).id) # NoPR

\* The listed contributor has a signed record and a PR record of this PR.
C7_WitnessSigned ==
    LET th == threads[1]
        pr == th.ev.pr
        rec == findCLAByGitHubUserId(th.snap.cla, PRAuthor(pr).id)
    IN /\ Done /\ IsHandledPR(th.ev) /\ PRAuthor(pr).login = Alice
       /\ <<"a", "l", "i", "c", "e">> \in exemptedUsers
       /\ th.path = "exempt" /\ th.resp = 200
       /\ rec # NoCLA /\ rec.status = "signed"
       /\ findPRRecord(th.snap.prs, pr.repo, pr.number, PRAuthor(pr).id) # NoPR

\* The listed contributor has a pending record and a PR record of this PR.
C7_WitnessPending ==
    LET th == threads[1]
        pr == th.ev.pr
        rec == findCLAByGitHubUserId(th.snap.cla, PRAuthor(pr).id)
    IN /\ Done /\ IsHandledPR(th.ev) /\ PRAuthor(pr).login = Alice
       /\ <<"a", "l", "i", "c", "e">> \in exemptedUsers
       /\ th.path = "exempt" /\ th.resp = 200
       /\ rec # NoCLA /\ rec.status = "pending"
       /\ findPRRecord(th.snap.prs, pr.repo, pr.number, PRAuthor(pr).id) # NoPR

\* The listed contributor has no record at all.
C7_WitnessNone ==
    LET th == threads[1]
    IN /\ Done /\ IsHandledPR(th.ev) /\ PRAuthor(th.ev.pr).login = Alice
       /\ <<"a", "l", "i", "c", "e">> \in exemptedUsers
       /\ th.path = "exempt" /\ th.resp = 200
       /\ th.snap.cla = <<>> /\ th.snap.prs = <<>>

\* C11: pending and tracked. A handled pull_request event on a PR that has a PR record,
\* of a non-exempt contributor whose record is pending, makes one platform call, the
\* pending status on the event's sha: no comment, no label request, no call to Concord,
\* no e-mail lookup, no store write, the two tables as they were.
C11_PendingTrackedOnlyStatus ==
    LET th == threads[1]
        pr == th.ev.pr
        rec == findCLAByGitHubUserId(th.snap.cla, PRAuthor(pr).id)
    IN (Done /\ IsHandledPR(th.ev) /\ th.exempt = "no"
        /\ rec # NoCLA /\ rec.status = "pending"
        /\ findPRRecord(th.snap.prs, pr.repo, pr.number, PRAuthor(pr).id) # NoPR)
       => /\ th.path = "pending_tracked"
          /\ th.log.comments = <<>> /\ th.log.labels = <<>> /\ th.log.concord = <<>>
          /\ th.log.reads = <<>> /\ th.log.writes = <<>> /\ th.log.edits = <<>>
          /\ cla_records = th.snap.cla /\ pr_records = th.snap.prs
          /\ th.resp = 200
             => /\ th.log.statuses = <<[pr |-> pr, sha |-> th.ev.sha, state |-> "pending"]>>
                /\ status[pr][th.ev.sha] = "pending"
          /\ th.resp # 200 => th.log.statuses = <<>>

\* A synchronize event brought a new head commit to a pending, tracked PR.
C11_Witness ==
    LET th == threads[1]
        pr == th.ev.pr
        rec == findCLAByGitHubUserId(th.snap.cla, PRAuthor(pr).id)
    IN /\ Done /\ IsHandledPR(th.ev) /\ th.ev.action = "synchronize" /\ th.ev.sha = 2
       /\ th.exempt = "no" /\ rec # NoCLA /\ rec.status = "pending"
       /\ findPRRecord(th.snap.prs, pr.repo, pr.number, PRAuthor(pr).id) # NoPR
       /\ th.resp = 200 /\ status[pr][1] = "pending" /\ status[pr][2] = "pending"

\* C12: signed outside the bot. Where the handler goes on past the classification, a
\* search that answers with a current agreement for the resolved e-mail leads to the
\* external path whether or not a creation would succeed, and an agreement that is not
\* current does not. On that path the contributor has one CLA record, signed, with the
\* uid of the agreement found; no agreement is created, no comment posted, the PR
\* records are as they were; when the calls go through, the event's sha shows success
\* and the labels are updated.
C12_SignedExternally ==
    LET th == threads[1]
        pr == th.ev.pr
        userId == PRAuthor(pr).id
        found == ConcordSearchItems(AliceCorpMail)[1]
    IN /\ th.pc = "resolve"
          => /\ \A createOk \in BOOLEAN :
                  PRRun(World(1), <<AliceRelayMail, AliceCorpMail>>, <<>>,
                        TRUE, createOk).th.path = "external"
             /\ PRRun(World(1), <<AliceOldMail>>, <<>>, TRUE, TRUE).th.path # "external"
       /\ (Done /\ IsHandledPR(th.ev) /\ th.path = "external")
          => /\ th.exempt = "no"
             /\ th.log.concord = <<"search">> /\ th.log.comments = <<>>
             /\ th.log.writes = <<"createCLARecord">>
             /\ pr_records = th.snap.prs
             /\ Count(cla_records, LAMBDA r : r.github_user_id = userId) = 1
             /\ findCLAByGitHubUserId(cla_records, userId).status = "signed"
             /\ findCLAByGitHubUserId(cla_records, userId).concord_agreement_uid = found.uid
             /\ (th.resp = 200 /\ LabelsTaken(th))
                => /\ status[pr][th.ev.sha] = "success"
                   /\ "cla:signed" \in labels[pr] /\ "cla:pending" \notin labels[pr]

\* The contributor had a cancelled record and an untracked PR; the search found the
\* current agreement.
C12_Witness ==
    LET th == threads[1]
        rec == findCLAByGitHubUserId(th.snap.cla, PRAuthor(th.ev.pr).id)
    IN /\ Done /\ IsHandledPR(th.ev) /\ th.path = "external"
       /\ th.resp = 200 /\ LabelsTaken(th)
       /\ rec # NoCLA /\ rec.status = "cancelled"
       /\ status[th.ev.pr][th.ev.sha] = "success"

\* A served /cla resend command that passed the entry checks.
IsResend(th) ==
    th.ev.event = "issue_comment" /\ th.path \notin {"none", "ignored", "no_installation"}

\* C13: resend after the agreement was lost. When /cla resend finds a pending record
\* and the fetch of its agreement or the resend fails, the old record is removed first;
\* once the new record is written the contributor has exactly one CLA record, pending,
\* whose uid is the agreement just created and differs from the one removed; when the
\* branch runs to its end, the one status set is pending on the PR's current head and
\* the one reply is the new-agreement confirmation for the author.
C13_ResendAfterLoss ==
    LET th == threads[1]
        pr == th.ev.pr
        userId == PRAuthor(pr).id
        old == findCLAByGitHubUserId(th.snap.cla, userId)
        rows == Count(cla_records, LAMBDA r : r.github_user_id = userId)
    IN (Done /\ IsResend(th) /\ old # NoCLA /\ old.status = "pending"
        /\ th.path \notin {"resent", "cleanup_threw"})
       => /\ th.path \in {"recreated", "recreate_failed"}
          /\ th.log.writes # <<>> /\ th.log.writes[1] = "deleteCLAByGitHubUserId"
          /\ "createCLARecord" \notin Range(th.log.writes) => rows = 0
          /\ "createCLARecord" \in Range(th.log.writes)
             => /\ rows = 1
                /\ findCLAByGitHubUserId(cla_records, userId)
                     = [github_user_id |-> userId, concord_agreement_uid |-> th.uid,
                        status |-> "pending", signed_at |-> NullTs]
                /\ th.uid = Len(concord) /\ concord[th.uid] = pr
                /\ th.uid # old.concord_agreement_uid
                /\ Count(th.log.concord, LAMBDA c : c = "create") = 1
          /\ th.path = "recreated"
             => /\ "createCLARecord" \in Range(th.log.writes)
                /\ th.log.statuses = <<[pr |-> pr, sha |-> head[pr], state |-> "pending"]>>
                /\ status[pr][head[pr]] = "pending"
                /\ th.log.comments = <<[pr |-> pr, body |-> "new_agreement",
                                        mention |-> PRAuthor(pr).login]>>
                /\ th.resp = 200

\* The fetch failed, the creation went through: one new pending record.
C13_Witness ==
    LET th == threads[1]
        userId == PRAuthor(th.ev.pr).id
        old == findCLAByGitHubUserId(th.snap.cla, userId)
    IN /\ Done /\ IsResend(th) /\ th.path = "recreated"
       /\ old # NoCLA /\ old.status = "pending"
       /\ th.log.concord = <<"fetch", "create">>
       /\ findCLAByGitHubUserId(cla_records, userId).concord_agreement_uid
            = old.concord_agreement_uid + 1

\* C14: resend when already signed. When /cla resend is answered for a PR whose author
\* has a signed record, the handler has called nothing outside the process but the
\* reply: no read of the platform, no call to the agreement service, no commit status,
\* no store write; the store is as before and the one comment posted is the
\* no-resend-needed reply.
C14_SignedNoExternalCalls ==
    LET th == threads[1]
        pr == th.ev.pr
        rec == findCLAByGitHubUserId(th.snap.cla, PRAuthor(pr).id)
    IN (Done /\ IsResend(th) /\ rec # NoCLA /\ rec.status = "signed" /\ th.resp = 200)
       => /\ th.path = "no_resend_needed"
          /\ th.log.reads = <<>>
          /\ th.log.concord = <<>> /\ th.log.statuses = <<>> /\ th.log.labels = <<>>
          /\ th.log.writes = <<>> /\ th.log.edits = <<>>
          /\ cla_records = th.snap.cla /\ pr_records = th.snap.prs
          /\ th.log.comments = <<[pr |-> pr, body |-> "already_signed",
                                  mention |-> PRAuthor(pr).login]>>

\* C15: resend while the agreement exists. With a pending record whose agreement the
\* service still has and no call failing, the command ends on the resend path whatever
\* the e-mail sources give; on that path the service was asked to fetch and then to
\* resend, both for the uid of the record, nothing was created, no status set, the one
\* comment is the resend confirmation, and both tables are as they were.
C15_ResendSameAgreement ==
    LET th == threads[1]
        pr == th.ev.pr
        old == findCLAByGitHubUserId(th.snap.cla, PRAuthor(pr).id)
        now == findCLAByGitHubUserId(cla_records, PRAuthor(pr).id)
    IN /\ (th.pc = "cmd_check" /\ now # NoCLA /\ now.status = "pending")
          => \A emails \in EmailCases, deleteDefined \in BOOLEAN :
                CmdRun(World(1), emails[1], emails[2], TRUE, TRUE, deleteDefined).th.path
                   = "resent"
       /\ (Done /\ IsResend(th) /\ th.path = "resent")
          => /\ old # NoCLA /\ old.status = "pending"
             /\ th.log.concord = <<"fetch", "resend">>
             /\ th.uid = old.concord_agreement_uid
             /\ th.log.comments = <<[pr |-> pr, body |-> "resent",
                                     mention |-> PRAuthor(pr).login]>>
             /\ th.log.statuses = <<>> /\ th.log.labels = <<>> /\ th.log.writes = <<>>
             /\ cla_records = th.snap.cla /\ pr_records = th.snap.prs
             /\ th.resp = 200

\* The invitation of a pending contributor with a tracked PR was resent.
C15_Witness ==
    LET th == threads[1]
        pr == th.ev.pr
    IN /\ Done /\ IsResend(th) /\ th.path = "resent"
       /\ findCLAByGitHubUserId(cla_records, PRAuthor(pr).id).status = "pending"
       /\ findPRRecord(pr_records, pr.repo, pr.number, PRAuthor(pr).id) # NoPR
       /\ th.log.concord = <<"fetch", "resend">>

\* C16: failed creation persists nothing. When /cla resend reaches the fresh-agreement
\* branch and the creation of the agreement fails, the reply posted is the failure
\* message naming the author of the comment, and both tables are what they were before
\* the command.
C16_CreateFailedStoreUnchanged ==
    LET th == threads[1]
        pr == th.ev.pr
    IN (Done /\ IsResend(th) /\ th.path = "recreate_failed" /\ th.resp = 200
        /\ "createCLARecord" \notin Range(th.log.writes))
       => /\ th.log.comments = <<[pr |-> pr, body |-> "failed",
                                  mention |-> th.ev.requester]>>
          /\ cla_records = th.snap.cla
          /\ pr_records = th.snap.prs

\* The request's log holds nothing but the given store writes.
OnlyWrites(th, writes) == th.log = [EmptyLog EXCEPT !.writes = writes]

\* C17: cancellation. After an AGREEMENT_CANCELLED event every CLA record whose
\* agreement uid is the event's is cancelled with no signing time, every other record
\* is as it was (so with no such record the table is unchanged), the PR records are
\* untouched, the one store update is all the handler did (no PR walked, no platform
\* or agreement-service call), and the webhook is answered 200.
C17_CancelledOnlyMarks ==
    LET th == threads[1]
        before == th.snap.cla
    IN (Done /\ th.ev.event = "AGREEMENT_CANCELLED")
       => /\ th.path = "cancelled" /\ th.resp = 200
          /\ Len(cla_records) = Len(before)
          /\ \A i \in 1..Len(before) :
                cla_records[i] = IF before[i].concord_agreement_uid = th.ev.ref
                                 THEN [before[i] EXCEPT !.status = "cancelled",
                                                        !.signed_at = NullTs]
                                 ELSE before[i]
          /\ findCLAByAgreementUid(before, th.ev.ref) = NoCLA => cla_records = before
          /\ pr_records = th.snap.prs
          /\ OnlyWrites(th, <<"updateCLAStatusByAgreementUid">>)

\* The agreement of a pending contributor with a tracked PR was cancelled.
C17_Witness ==
    LET th == threads[1]
        rec == findCLAByAgreementUid(th.snap.cla, th.ev.ref)
    IN /\ Done /\ th.ev.event = "AGREEMENT_CANCELLED"
       /\ rec # NoCLA /\ rec.status = "pending"
       /\ findCLAByAgreementUid(cla_records, th.ev.ref).status = "cancelled"
       /\ findPRRecordsByGitHubUserId(pr_records, rec.github_user_id) # <<>>
       /\ status[PRA][head[PRA]] = "pending"

\* C18: signature event for an unknown agreement. When neither the uid of an executed
\* or new-signature event nor (for executed) its signed uid matches a CLA record, the
\* handler does nothing: no store write, no platform call, both tables as before, and
\* the webhook is answered 200.
C18_UnknownAgreementNoOp ==
    LET th == threads[1]
        byUid == findCLAByAgreementUid(th.snap.cla, th.ev.ref)
        bySigned == IF th.ev.sref # NullId
                    THEN findCLAByAgreementUid(th.snap.cla, th.ev.sref) ELSE NoCLA
    IN (Done /\ IsSignatureEvent(th.ev) /\ byUid = NoCLA
        /\ (th.ev.event = "AGREEMENT_EXECUTED" => bySigned = NoCLA))
       => /\ th.path = "no_record" /\ th.resp = 200
          /\ th.log = EmptyLog
          /\ cla_records = th.snap.cla /\ pr_records = th.snap.prs

\* An executed event for an agreement nobody here holds, while a pending record of
\* another agreement and its PR exist.
C18_Witness ==
    LET th == threads[1]
    IN /\ Done /\ th.ev.event = "AGREEMENT_EXECUTED" /\ th.ev.ref = 99 /\ th.ev.sref = 90
       /\ th.path = "no_record"
       /\ cla_records # <<>> /\ cla_records[1].status = "pending"
       /\ pr_records # <<>>

\* C19: status transitions. In every step, a CLA record that exists before and after
\* and whose status differs was pending before and is signed or cancelled after: a
\* signed or cancelled record never changes status.
C19_OnlyPendingMoves ==
    [][\A userId \in {PRAuthor(pr).id : pr \in PRs} :
          LET old == findCLAByGitHubUserId(cla_records, userId)
              new == findCLAByGitHubUserId(cla_records', userId)
          IN (old # NoCLA /\ new # NoCLA /\ old.status # new.status)
             => /\ old.status = "pending"
                /\ new.status \in {"signed", "cancelled"}]_vars

\* C20: store uniqueness. However requests interleave, no two CLA records have the
\* same user id and no two PR records the same (repository, number, user id); and
\* creating a CLA record for a user id that has one keeps the number of rows, leaves a
\* single row for that id and puts the new agreement uid and status in it, whatever
\* they were before.
C20_UniqueRows ==
    /\ \A i, j \in 1..Len(cla_records) :
          cla_records[i].github_user_id = cla_records[j].github_user_id => i = j
    /\ \A i, j \in 1..Len(pr_records) :
          SameTriple(pr_records[i], pr_records[j].repo_full_name,
                     pr_records[j].pr_number, pr_records[j].github_user_id) => i = j
    /\ \A i \in 1..Len(cla_records) :
          \A st \in {"pending", "signed"} :
             LET userId == cla_records[i].github_user_id
                 after == createCLARecord(cla_records,
                              [github_user_id |-> userId, concord_agreement_uid |-> 77,
                               status |-> st, signed_at |-> NullTs])
             IN /\ Len(after) = Len(cla_records)
                /\ Count(after, LAMBDA r : r.github_user_id = userId) = 1
                /\ findCLAByGitHubUserId(after, userId).concord_agreement_uid = 77
                /\ findCLAByGitHubUserId(after, userId).status = st

\* Two overlapping requests have each created an agreement and written the CLA record
\* and the PR record: one row of each is there, holding the later agreement.
C20_Witness ==
    /\ \A t \in ThreadIds :
          /\ threads[t].pc = "done"
          /\ "createCLARecord" \in Range(threads[t].log.writes)
          /\ "createPRRecord" \in Range(threads[t].log.writes)
    /\ threads[1].uid # threads[2].uid
    /\ Len(cla_records) = 1 /\ Len(pr_records) = 1
    /\ cla_records[1].concord_agreement_uid \in {threads[1].uid, threads[2].uid}

\* C21: unauthenticated requests. A request to the GitHub webhook whose signature
\* header is missing or does not match is answered 401 and nothing else happens,
\* whatever it carries: no handler step runs, the request's log is empty, and both
\* tables are as before. A request is answered 401 only for that reason.
C21_UnsignedRejected ==
    \A t \in ThreadIds :
       LET th == threads[t]
       IN /\ (th.ev.event \in GitHubEvents /\ th.ev.signature # "valid")
             => /\ th.pc = "done" /\ th.path = "rejected" /\ th.resp = 401
                /\ th.log = EmptyLog
                /\ cla_records = th.snap.cla /\ pr_records = th.snap.prs
          /\ th.resp = 401 => th.ev.signature \in {"missing", "mismatch"}

\* A pull_request opened payload with a wrong signature arrived while a pending record
\* and its PR were in the store.
C21_Witness ==
    LET th == threads[1]
    IN /\ Done /\ th.resp = 401 /\ th.ev.signature = "mismatch"
       /\ th.ev.event = "pull_request" /\ th.ev.action = "opened"
       /\ cla_records # <<>> /\ pr_records # <<>>

\* C22: other pull-request actions. An authenticated pull_request event whose action is
\* closed, edited or labeled ends at the entry check: it is answered 200, no step of
\* the handler runs, nothing is read from or sent to the platform or the agreement
\* service, and both tables are as before, whatever they hold.
C22_OtherActionsNoOp ==
    \A t \in ThreadIds :
       LET th == threads[t]
       IN (th.ev.event = "pull_request" /\ th.ev.signature = "valid"
           /\ th.ev.action \in {"closed", "edited", "labeled"})
          => /\ th.pc = "done" /\ th.path = "ignored" /\ th.resp = 200
             /\ th.log = EmptyLog
             /\ cla_records = th.snap.cla /\ pr_records = th.snap.prs

\* The PR of a pending contributor was closed: its record, PR record and pending
\* status stay.
C22_Witness ==
    LET th == threads[1]
        pr == th.ev.pr
    IN /\ Done /\ th.ev.event = "pull_request" /\ th.ev.action = "closed"
       /\ th.ev.installation /\ th.resp = 200
       /\ findCLAByGitHubUserId(cla_records, PRAuthor(pr).id).status = "pending"
       /\ findPRRecord(pr_records, pr.repo, pr.number, PRAuthor(pr).id) # NoPR
       /\ status[pr][head[pr]] = "pending"

\* The last platform call of the path a pull-request handler took is in its log, which
\* is to say the handler ran to its end.
PRRanToEnd(th) ==
    CASE th.path \in {"ignored", "no_installation"} -> TRUE
      [] th.path \in {"exempt", "signed", "external", "pending_tracked"} ->
            Len(th.log.statuses) = 1
      [] th.path = "created" -> Len(th.log.statuses) = 1
      [] th.path = "create_failed" ->
            Len(th.log.comments) = 1 /\ th.log.comments[1].body = "manual"
      [] OTHER -> FALSE

\* The reply that ends the path a /cla resend handler took is in its log, or the path
\* has none: the handler ran to its end, through its catch block when a call of the
\* fresh-agreement branch threw.
CmdRanToEnd(th) ==
    LET n == Len(th.log.comments)
    IN CASE th.path \in {"ignored", "no_installation", "nothing"} -> TRUE
         [] th.path = "resent" -> n > 0 /\ th.log.comments[n].body = "resent"
         [] th.path = "no_resend_needed" ->
               n > 0 /\ th.log.comments[n].body = "already_signed"
         [] th.path = "recreated" -> n > 0 /\ th.log.comments[n].body = "new_agreement"
         [] th.path = "recreate_failed" -> n > 0 /\ th.log.comments[n].body = "failed"
         [] OTHER -> FALSE

\* C23: response of the GitHub webhook. An authenticated request is answered 200 or 500;
\* a pull_request event is answered 200 exactly when its handler ran to its last call
\* and 500 exactly when it stopped before it, and so is an issue_comment event, whose
\* handler catches a throw of the fresh-agreement branch and answers 200 after its
\* failure reply; a run in which no call was rejected and no function the build lacks
\* was called has 200 only; a throwing status call gives 500 while rejected label
\* requests, which the helpers swallow, give 200; an event type without a handler is
\* answered 200 with no call made and both tables unchanged.
C23_ResponseFollowsHandler ==
    LET th == threads[1]
    IN /\ (Done /\ th.ev.event \in GitHubEvents /\ th.ev.signature = "valid")
          => /\ th.resp \in {200, 500}
             /\ (nFaults = 0 /\ th.path \notin {"cleanup_threw", "member_check_threw"})
                => th.resp = 200
       /\ (Done /\ th.ev.event = "pull_request" /\ th.ev.signature = "valid")
          => /\ th.resp = 200 <=> PRRanToEnd(th)
             /\ th.resp = 500 <=> ~PRRanToEnd(th)
             /\ th.path = "member_check_threw" => th.resp = 500
       /\ (Done /\ th.ev.event = "issue_comment" /\ th.ev.signature = "valid")
          => /\ th.resp = 200 <=> CmdRanToEnd(th)
             /\ th.resp = 500 <=> ~CmdRanToEnd(th)
       /\ th.pc = "signed_status"
          => /\ PRClassify(World(1), 1).th.resp = 500
             /\ PRClassify(PRClassify(PRClassify(World(1), 0), 1), 1).th.resp = 200
             /\ PRRun(World(1), <<>>, <<>>, TRUE, TRUE).th.resp = 200
       /\ th.pc = "cmd_signed_reply"
          => /\ CmdCheck(World(1), <<>>, <<>>, TRUE, 1, TRUE).th.resp = 500
             /\ CmdCheck(World(1), <<>>, <<>>, TRUE, 0, TRUE).th.resp = 200
       /\ th.pc = "cmd_create"
          => /\ CmdRun(World(1), <<>>, <<>>, TRUE, FALSE, TRUE).th.resp = 200
             /\ CmdCreateCaught(World(1), FALSE).th.resp = 500
       /\ (Done /\ th.ev.event \in {"ping", "push"} /\ th.ev.signature = "valid")
          => /\ th.resp = 200 /\ th.log = EmptyLog
             /\ cla_records = th.snap.cla /\ pr_records = th.snap.prs

\* The status call of a pull-request handler threw after the records were written: 500.
C23_Witness ==
    LET th == threads[1]
    IN /\ Done /\ th.ev.event = "pull_request" /\ th.ev.signature = "valid"
       /\ th.resp = 500 /\ th.path = "created"
       /\ th.log.writes # <<>> /\ th.log.statuses = <<>>

\* The cleanup of a /cla resend threw outside every try: 500, nothing replied.
C23_WitnessCommand ==
    LET th == threads[1]
    IN /\ Done /\ th.ev.event = "issue_comment" /\ th.ev.signature = "valid"
       /\ th.resp = 500 /\ th.path = "cleanup_threw" /\ th.log.comments = <<>>

\* The creation of a /cla resend threw and the catch block replied: 200.
C23_WitnessCaught ==
    LET th == threads[1]
    IN /\ Done /\ th.ev.event = "issue_comment" /\ th.ev.signature = "valid"
       /\ th.resp = 200 /\ th.path = "recreate_failed"

\* The organization check of a pull-request handler threw: 500.
C23_WitnessMember ==
    LET th == threads[1]
    IN /\ Done /\ th.ev.event = "pull_request" /\ th.ev.signature = "valid"
       /\ th.resp = 500 /\ th.path = "member_check_threw" /\ th.log = EmptyLog

\* A /cla resend for a contributor whose record is cancelled ended without a reply: 200.
C23_WitnessNothing ==
    LET th == threads[1]
    IN /\ Done /\ th.ev.event = "issue_comment" /\ th.ev.signature = "valid"
       /\ th.resp = 200 /\ th.path = "nothing" /\ th.log.comments = <<>>

\* A push event was acknowledged while records were in the store.
C23_WitnessUnhandled ==
    LET th == threads[1]
    IN /\ Done /\ th.ev.event = "push" /\ th.ev.signature = "valid" /\ th.resp = 200
       /\ cla_records # <<>>

\* An address of GitHub's private e-mail relay.
IsPrivateRelay(e) == Len(e) >= 2 /\ e[Len(e) - 1] = "users." /\ e[Len(e)] = "noreply.github.com"

Placeholder(user) ==
    <<ToString(user.id), "+">> \o user.login \o <<"@", "users.", "noreply.github.com">>

\* C24: e-mail resolution. The resolved e-mail is the first commit e-mail that is not a
\* private-relay address if there is one; otherwise the public profile e-mail if there
\* is one; otherwise the placeholder made of user id and username; with no commit
\* e-mail and no profile e-mail it is the placeholder.
C24_EmailResolutionOrder ==
    LET th == threads[1]
        in == emailInput
        real == SelectSeq(in.commitEmails, LAMBDA e : ~IsPrivateRelay(e))
    IN (Done /\ in # NoEmailInput)
       => /\ th.email = IF real # <<>> THEN real[1]
                        ELSE IF in.profileEmail # <<>> THEN in.profileEmail
                        ELSE Placeholder(in.user)
          /\ (in.commitEmails = <<>> /\ in.profileEmail = <<>>)
             => th.email = Placeholder(in.user)

\* C24, as the code has it: the first commit e-mail that is not a private-relay
\* address if there is one; otherwise the first commit e-mail, a relay address, if
\* there is any commit e-mail; otherwise the public profile e-mail if there is one;
\* otherwise the placeholder. The profile e-mail and the placeholder are used only when
\* the commits carry no e-mail at all.
C24_EmailResolutionAmended ==
    LET th == threads[1]
        in == emailInput
        real == SelectSeq(in.commitEmails, LAMBDA e : ~IsPrivateRelay(e))
    IN (Done /\ in # NoEmailInput)
       => /\ th.email = IF real # <<>> THEN real[1]
                        ELSE IF in.commitEmails # <<>> THEN in.commitEmails[1]
                        ELSE IF in.profileEmail # <<>> THEN in.profileEmail
                        ELSE Placeholder(in.user)
          /\ (in.commitEmails = <<>> /\ in.profileEmail = <<>>)
             => th.email = Placeholder(in.user)
          /\ th.email \in {in.profileEmail, Placeholder(in.user)} \ Range(in.commitEmails)
             => in.commitEmails = <<>>

\* Only a relay address in the commits and a public profile e-mail: the relay address
\* is the result.
C24_Witness ==
    /\ Done
    /\ emailInput.commitEmails = <<AliceRelayMail>>
    /\ emailInput.profileEmail = AliceMail
    /\ threads[1].email = AliceRelayMail

\* C25: what the fan-out does. After a signature event has marked a record signed,
\* the loop has visited every PR record with the contributor's user id, whatever
\* agreement uid the record carries; for each PR whose update went through, the stored
\* comment, if the record has one, was rewritten (and no comment otherwise), the
\* pending label was removed, and success was set on the head commit the PR has at
\* that time.
C25_FanOutPerPR ==
    LET th == threads[1]
        userId == th.existingCLA.github_user_id
        rows == SelectSeq(th.snap.prs, LAMBDA r : r.github_user_id = userId)
    IN (Done /\ IsSignatureEvent(th.ev) /\ th.path \in {"executed", "new_signature"}
        /\ th.log.items # <<>>)
       => /\ Len(th.log.items) = Len(rows)
          /\ NullId \notin Range(th.log.edits)
          /\ \A i \in 1..Len(rows) :
                LET pr == PRRecordKey(rows[i])
                IN /\ th.log.items[i].pr = pr
                   /\ th.log.items[i].outcome = "ok"
                      => /\ Count(th.log.edits, LAMBDA c : c = rows[i].comment_id)
                              = (IF rows[i].comment_id # NullId THEN 1 ELSE 0)
                         /\ rows[i].comment_id # NullId
                            => comments[rows[i].comment_id].body = "signed"
                         /\ Count(th.log.labels,
                                  LAMBDA l : l = [pr |-> pr, op |-> "remove",
                                                  name |-> "cla:pending", ok |-> TRUE]) = 1
                         /\ "cla:pending" \notin labels[pr]
                         /\ Count(th.log.statuses,
                                  LAMBDA x : x = [pr |-> pr, sha |-> head[pr],
                                                  state |-> "success"]) = 1
                         /\ \A x \in Range(th.log.statuses) : x.pr = pr => x.sha = head[pr]
                         /\ status[pr][head[pr]] = "success"

\* Two PR records of the contributor carry different agreement uids; the signature of
\* the later agreement updated both PRs.
C25_Witness ==
    LET th == threads[1]
        rows == findPRRecordsByGitHubUserId(th.snap.prs, th.existingCLA.github_user_id)
    IN /\ Done /\ IsSignatureEvent(th.ev) /\ Len(th.log.items) = 2
       /\ rows[1].concord_agreement_uid # rows[2].concord_agreement_uid
       /\ \A i \in 1..2 : th.log.items[i].outcome = "ok"
       /\ \A pr \in PRs : status[pr][head[pr]] = "success"

\* The PR got a new head commit after its record was written; the signature set
\* success on the new head and left the first commit pending.
C25_WitnessNewHead ==
    LET th == threads[1]
    IN /\ Done /\ IsSignatureEvent(th.ev) /\ Len(th.log.items) = 1
       /\ th.log.items[1].outcome = "ok" /\ th.log.items[1].pr = PRA
       /\ head[PRA] = 2 /\ status[PRA][2] = "success" /\ status[PRA][1] = "pending"
       /\ th.log.edits # <<>>

\* C26: a signed record is not overwritten by a pull-request handler. In every step
\* taken by a pull-request handler, a CLA record that is signed before the step is
\* signed after it and carries the same agreement uid.
C26_SignedNotOverwritten ==
    [][(threads'[1] # threads[1] /\ threads'[1].ev.event = "pull_request")
       => \A userId \in {PRAuthor(pr).id : pr \in PRs} :
             LET old == findCLAByGitHubUserId(cla_records, userId)
                 new == findCLAByGitHubUserId(cla_records', userId)
             IN (old # NoCLA /\ old.status = "signed")
                => /\ new.status = "signed"
                   /\ new.concord_agreement_uid = old.concord_agreement_uid]_vars

\* C27: one agreement per pending contributor. In every step taken by a pull-request
\* handler before and after which the contributor's record is pending, no agreement is
\* created, the
\* record keeps its agreement uid, and so every agreement created for the contributor
\* is still the one the record points at.
C27_PendingKeepsAgreement ==
    [][(threads'[1] # threads[1] /\ threads'[1].ev.event = "pull_request")
       => \A userId \in {PRAuthor(pr).id : pr \in PRs} :
             LET old == findCLAByGitHubUserId(cla_records, userId)
                 new == findCLAByGitHubUserId(cla_records', userId)
             IN (old # NoCLA /\ old.status = "pending" /\ new.status = "pending")
                => /\ concord' = concord
                   /\ new.concord_agreement_uid = old.concord_agreement_uid
                   /\ \A uid \in 1..Len(concord') :
                         findCLAByAgreementUid(cla_records', uid) # NoCLA]_vars

\* C28: success needs exemption or a signature. Whenever a request has set a success
\* status on a commit of a PR, the handler classified the author exempt, or the
\* author's CLA record is signed, the handler having read it as signed or written it
\* as signed before it set the status.
C28_SuccessOnlyExemptOrSigned ==
    \A t \in ThreadIds :
       LET th == threads[t]
       IN \A x \in Range(th.log.statuses) :
             x.state = "success"
             => \/ th.exempt # "no"
                \/ /\ findCLAByGitHubUserId(cla_records, PRAuthor(x.pr).id).status = "signed"
                   /\ \/ th.path \in {"signed", "external"}
                      \/ th.pc \in {"signed_unlabel", "signed_label",
                                    "external_unlabel", "external_label"}
                      \/ /\ IsSignatureEvent(th.ev)
                         /\ "updateCLAStatusByAgreementUid" \in Range(th.log.writes)

\* The same seen step by step, so that it can be asked of overlapping requests too: in
\* every step in which a handler sets a success status, the author is exempt for it, or
\* the author's record is signed in the store, or this handler has read it as signed or
\* written it as signed, or this handler has marked it signed.
SuccessSetOnlyWhenExemptOrSigned ==
    [][\A t \in ThreadIds :
          LET th == threads'[t]
              n == Len(th.log.statuses)
          IN (n > 0 /\ th.log.statuses # threads[t].log.statuses
              /\ th.log.statuses[n].state = "success")
             => LET userId == PRAuthor(th.log.statuses[n].pr).id
                IN \/ th.exempt # "no"
                   \/ findCLAByGitHubUserId(cla_records', userId).status = "signed"
                   \/ th.pc \in {"signed_unlabel", "external_unlabel"}
                   \/ /\ IsSignatureEvent(th.ev)
                      /\ th.existingCLA.github_user_id = userId
                      /\ "updateCLAStatusByAgreementUid" \in Range(th.log.writes)]_vars

\* The author of a PR with a pending record was put on the exemption list; the next
\* event of the PR set success though nothing was signed.
C28_Witness ==
    LET th == threads[1]
        pr == th.ev.pr
    IN /\ Done /\ IsHandledPR(th.ev) /\ th.exempt = "whitelist"
       /\ findCLAByGitHubUserId(cla_records, PRAuthor(pr).id).status = "pending"
       /\ th.log.statuses = <<[pr |-> pr, sha |-> th.ev.sha, state |-> "success"]>>
       /\ status[pr][th.ev.sha] = "success"

\* A signature event set success on the PR of the contributor whose record it marked.
C28_WitnessSigned ==
    LET th == threads[1]
    IN /\ Done /\ IsSignatureEvent(th.ev) /\ th.exempt = "no"
       /\ th.log.statuses # <<>> /\ th.log.statuses[1].state = "success"
       /\ findCLAByGitHubUserId(cla_records, PRAuthor(PRA).id).status = "signed"

\* C29: success and the pending label. When a request that set a success status on a
\* PR has been answered 200 and GitHub took all its label requests, the PR does not
\* carry the pending label.
C29_SuccessDropsPendingLabel ==
    LET th == threads[1]
    IN (Done /\ th.resp = 200 /\ LabelsTaken(th))
       => \A x \in Range(th.log.statuses) :
             x.state = "success" => "cla:pending" \notin labels[x.pr]

\* C30: signing time. In every state of the store, a CLA record has a signing time
\* exactly when its status is signed.
C30_SignedAtIffSigned ==
    \A i \in 1..Len(cla_records) :
       cla_records[i].signed_at # NullTs <=> cla_records[i].status = "signed"

\* C31: the PR is tracked after a resend that created an agreement. When the
\* fresh-agreement branch of /cla resend has run to its end, the PR has a PR record of
\* its author and that record carries the uid of the agreement just created.
C31_ResendTracksPR ==
    LET th == threads[1]
        pr == th.ev.pr
        row == findPRRecord(pr_records, pr.repo, pr.number, PRAuthor(pr).id)
    IN (Done /\ IsResend(th) /\ th.path = "recreated" /\ th.resp = 200)
       => /\ row # NoPR
          /\ row.concord_agreement_uid = th.uid

\* C32: only a lost agreement is recreated. When /cla resend finds a pending record,
\* the fetch of its agreement succeeds and the resend is attempted, the record is not
\* deleted and no agreement is created, whether or not the resend goes through: the
\* CLA records are as before the command.
C32_RecreateOnlyWhenLost ==
    LET th == threads[1]
        old == findCLAByGitHubUserId(th.snap.cla, PRAuthor(th.ev.pr).id)
    IN (Done /\ IsResend(th) /\ old # NoCLA /\ old.status = "pending"
        /\ Len(th.log.concord) >= 2 /\ th.log.concord[2] = "resend")
       => /\ "deleteCLAByGitHubUserId" \notin Range(th.log.writes)
          /\ "create" \notin Range(th.log.concord)
          /\ cla_records = th.snap.cla

\* C33: one reply per accepted command. Every /cla resend that passed the entry checks
\* and was answered without a failed platform call has posted exactly one comment on
\* the PR, whatever the stored state of the author's CLA record.
C33_ExactlyOneReply ==
    LET th == threads[1]
    IN (Done /\ IsResend(th) /\ th.resp = 200) => Len(th.log.comments) = 1

\* C34: a cancelled record is neither signed nor pending. A handled pull-request event
\* of a non-exempt contributor whose record is cancelled is classified neither as signed
\* nor as pending: its first agreement-service call is the search by e-mail and it ends
\* on the external or the new-agreement path. The cancellation itself sets no commit
\* status and touches no label, so a PR that had success keeps it.
C34_CancelledIsReclassified ==
    LET th == threads[1]
        rec == findCLAByGitHubUserId(th.snap.cla, PRAuthor(th.ev.pr).id)
    IN /\ (Done /\ IsHandledPR(th.ev) /\ th.exempt = "no"
           /\ rec # NoCLA /\ rec.status = "cancelled")
          => /\ th.path \in {"external", "created", "create_failed"}
             /\ Len(th.log.concord) >= 1
             /\ th.log.concord[1] = "search"
       /\ (Done /\ th.ev.event = "AGREEMENT_CANCELLED")
          => /\ th.log.statuses = <<>>
             /\ th.log.labels = <<>>

\* A PR event of a contributor whose record was cancelled went to the search and on to
\* a new agreement, while the other PR still shows the success it had received.
C34_Witness ==
    LET th == threads[1]
        rec == findCLAByGitHubUserId(th.snap.cla, PRAuthor(th.ev.pr).id)
    IN /\ Done /\ IsHandledPR(th.ev) /\ th.exempt = "no"
       /\ rec # NoCLA /\ rec.status = "cancelled"
       /\ th.path = "created" /\ th.resp = 200
       /\ \E pr \in PRs \ {th.ev.pr} : status[pr][head[pr]] = "success"

\* C35: the exempt outcome and the organization check. A pull-request event that ends
\* exempt wrote nothing to the store, called the agreement service never and posted no
\* comment. The organization was asked about the author only when the author is not
\* listed and the skip flag is off. With the skip flag on, an organization member who
\* is not listed is not exempt: a signed record gives the signed path, a pending record
\* with a PR record the pending path, anything else the search and what follows it.
C35_ExemptTouchesNothing ==
    LET th == threads[1]
        pr == th.ev.pr
        author == PRAuthor(pr)
        rec == findCLAByGitHubUserId(th.snap.cla, author.id)
        row == findPRRecord(th.snap.prs, pr.repo, pr.number, author.id)
        asked == "isOrganizationMember" \in Range(th.log.reads)
    IN (Done /\ IsHandledPR(th.ev))
       => /\ th.path = "exempt"
             => /\ th.log.writes = <<>> /\ th.log.concord = <<>> /\ th.log.comments = <<>>
                /\ cla_records = th.snap.cla /\ pr_records = th.snap.prs
          /\ asked => (~isUserExempted(author.login) /\ ~skipOrgMemberCheck)
          /\ th.exempt = "org_member" => asked
          /\ (skipOrgMemberCheck /\ th.member /\ ~isUserExempted(author.login))
             => /\ th.path # "exempt"
                /\ th.path = "signed" <=> (rec # NoCLA /\ rec.status = "signed")
                /\ th.path = "pending_tracked"
                   <=> (rec # NoCLA /\ rec.status = "pending" /\ row # NoPR)
                /\ th.path \in {"signed", "pending_tracked", "external", "created",
                                "create_failed"}

\* An organization member was exempted while the store held their pending record and
\* the PR record of this PR.
C35_Witness ==
    LET th == threads[1]
        pr == th.ev.pr
        rec == findCLAByGitHubUserId(th.snap.cla, PRAuthor(pr).id)
    IN /\ Done /\ IsHandledPR(th.ev) /\ th.path = "exempt" /\ th.resp = 200
       /\ th.exempt = "org_member" /\ th.member
       /\ rec # NoCLA /\ rec.status = "pending"
       /\ findPRRecord(th.snap.prs, pr.repo, pr.number, PRAuthor(pr).id) # NoPR

\* With the skip flag on, an organization member who is not listed went through the
\* new-agreement path.
C35_WitnessSkipped ==
    LET th == threads[1]
    IN /\ Done /\ IsHandledPR(th.ev) /\ skipOrgMemberCheck /\ th.member
       /\ ~isUserExempted(PRAuthor(th.ev.pr).login)
       /\ th.path = "created" /\ th.resp = 200

\* C36: failures inside the update of one tracked PR. In a finished fan-out, a PR whose
\* comment update failed still had its pending label removed and success set on its
\* current head, its comment left unedited; a PR for which no installation was found or
\* whose fetch failed got no commit status, no label request and no comment edit; and
\* in both cases the loop went through every PR record of the contributor and the
\* webhook was answered 200.
C36_FanOutItemFailures ==
    LET th == threads[1]
        rows == findPRRecordsByGitHubUserId(th.snap.prs, PRAuthor(PRA).id)
    IN (Done /\ IsSignatureEvent(th.ev) /\ th.log.items # <<>>)
       => \A i \in 1..Len(th.log.items) :
             LET item == th.log.items[i]
                 pr == item.pr
                 row == findPRRecord(th.snap.prs, pr.repo, pr.number, PRAuthor(pr).id)
             IN /\ item.outcome = "comment_fails"
                   => /\ status[pr][head[pr]] = "success"
                      /\ "cla:pending" \notin labels[pr]
                      /\ [pr |-> pr, sha |-> head[pr], state |-> "success"]
                            \in Range(th.log.statuses)
                      /\ row.comment_id \notin Range(th.log.edits)
                      /\ Len(th.log.items) = Len(rows) /\ th.resp = 200
                /\ item.outcome \in {"no_installation", "fetch_fails"}
                   => /\ \A x \in Range(th.log.statuses) : x.pr # pr
                      /\ \A x \in Range(th.log.labels) : x.pr # pr
                      /\ row.comment_id \notin Range(th.log.edits)
                      /\ Len(th.log.items) = Len(rows) /\ th.resp = 200
                      /\ \A j \in 1..Len(th.log.items) :
                            th.log.items[j].outcome = "ok"
                            => status[th.log.items[j].pr][head[th.log.items[j].pr]] = "success"

\* The first of two tracked PRs was skipped (no installation, or the fetch failed) and
\* the second one then received success.
C36_Witness ==
    LET th == threads[1]
    IN /\ Done /\ IsSignatureEvent(th.ev) /\ Len(th.log.items) = 2
       /\ th.log.items[1].outcome \in {"no_installation", "fetch_fails"}
       /\ th.log.items[2].outcome = "ok"
       /\ status[th.log.items[1].pr][head[th.log.items[1].pr]] = "pending"
       /\ status[th.log.items[2].pr][head[th.log.items[2].pr]] = "success"

\* The update of a posted pending comment failed and the PR went from pending to success.
C36_WitnessComment ==
    LET th == threads[1]
    IN /\ Done /\ IsSignatureEvent(th.ev)
       /\ \E i \in 1..Len(th.log.items) :
             LET pr == th.log.items[i].pr
                 row == findPRRecord(th.snap.prs, pr.repo, pr.number, PRAuthor(pr).id)
             IN /\ th.log.items[i].outcome = "comment_fails"
                /\ row.comment_id # NullId
                /\ comments[row.comment_id].body = "pending"
                /\ status[pr][head[pr]] = "success"

C38_OnlyTheCommand ==
    LET th == threads[1]
        ev == th.ev
        isCommand == /\ ev.action = "created" /\ ev.isPullRequest
                     /\ ev.body \in {ClaResend, PaddedResend}
    IN (Done /\ ev.event = "issue_comment")
       => /\ ~isCommand
             => /\ th.path = "ignored" /\ th.resp = 200
                /\ th.log = EmptyLog
                /\ cla_records = th.snap.cla /\ pr_records = th.snap.prs
          /\ (isCommand /\ ev.installation)
             => /\ IsResend(th)
                /\ th.log.reads # <<>>

\* The command followed by more text, as a new comment on a pull request whose author
\* has a record, was ignored.
C38_Witness ==
    LET th == threads[1]
    IN /\ Done /\ th.ev.event = "issue_comment" /\ th.path = "ignored"
       /\ th.ev.action = "created" /\ th.ev.isPullRequest /\ th.ev.installation
       /\ th.ev.body = ClaResend \o <<" ", "n", "o", "w">>
       /\ cla_records # <<>>

\* The command in mixed case with blanks around it was acted on.
C38_WitnessPadded ==
    LET th == threads[1]
    IN /\ Done /\ th.ev.event = "issue_comment" /\ th.ev.body = PaddedResend
       /\ th.path = "resent" /\ th.resp = 200

\* An edited comment carrying the command was ignored.
C38_WitnessEdited ==
    LET th == threads[1]
    IN /\ Done /\ th.ev.event = "issue_comment" /\ th.path = "ignored"
       /\ th.ev.action = "edited" /\ th.ev.isPullRequest /\ th.ev.body = ClaResend
       /\ cla_records # <<>>

\* C39: the pending path rests on a posted comment. When a pull-request event ends on
\* the pending-and-tracked path, the PR record of the PR holds the id of a comment that
\* was posted on that PR as the pending-signature comment.
C39_PendingPathHasComment ==
    LET th == threads[1]
        pr == th.ev.pr
        row == findPRRecord(th.snap.prs, pr.repo, pr.number, PRAuthor(pr).id)
    IN (Done /\ IsHandledPR(th.ev) /\ th.path = "pending_tracked")
       => /\ row # NoPR
          /\ row.comment_id # NullId
          /\ row.comment_id \in 1..Len(comments)
          /\ comments[row.comment_id].pr = pr

\* C40: agreement events that are only noted. An agreement event that is neither
\* executed, new-signature nor cancelled (moved-to-signing, or any other kind) changes
\* no CLA record and no PR record, writes nothing to the store, makes no platform or
\* agreement-service call, and the webhook is answered 200.
C40_OtherEventsChangeNothing ==
    LET th == threads[1]
    IN (Done /\ th.ev.event \in ConcordEventNames
        /\ th.ev.event \notin SignatureEvents \cup {"AGREEMENT_CANCELLED"})
       => /\ th.resp = 200
          /\ th.path = IF th.ev.event = "AGREEMENT_MOVE_TO_SIGNING" THEN "logged"
                       ELSE "unhandled"
          /\ th.log = EmptyLog
          /\ cla_records = th.snap.cla /\ pr_records = th.snap.prs

\* A moved-to-signing event named the agreement of a pending record whose PR is tracked
\* and still pending.
C40_Witness ==
    LET th == threads[1]
        rec == findCLAByAgreementUid(cla_records, th.ev.ref)
    IN /\ Done /\ th.ev.event = "AGREEMENT_MOVE_TO_SIGNING"
       /\ rec # NoCLA /\ rec.status = "pending"
       /\ findPRRecordsByGitHubUserId(pr_records, rec.github_user_id) # <<>>
       /\ status[PRA][head[PRA]] = "pending"

\* An event of another kind named the agreement of a pending record.
C40_WitnessOther ==
    LET th == threads[1]
        rec == findCLAByAgreementUid(cla_records, th.ev.ref)
    IN /\ Done /\ th.ev.event = "AGREEMENT_EXPIRED"
       /\ rec # NoCLA /\ rec.status = "pending"

====
